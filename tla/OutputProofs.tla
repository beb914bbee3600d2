---------------------------- MODULE OutputProofs ----------------------------
(***************************************************************************)
(* Proofs about the two parts of Output that can be reasoned about on      *)
(* their own, for any arguments, limits and capacities:                    *)
(*                                                                         *)
(* - the writer behind a generator (Writer): every byte a call emitted is  *)
(*   delivered, in the buffer or pending, and what its consumer sees is a  *)
(*   byte pipe (BytePipe);                                                 *)
(* - the one-shot calls (OneShot): a buffer holds all of the text, or the  *)
(*   status says how it was cut.                                           *)
(*                                                                         *)
(* The writer copies the output of the generator of a mapped value, so     *)
(* the first half of the module shows what that generator's state is made  *)
(* of after any turn: text, never more than its buffer holds, whatever the *)
(* sources return.                                                         *)
(***************************************************************************)
EXTENDS Writer, OneShot, SequenceTheorems, WellFoundedInduction, TLAPS

(***************************************************************************)
(* Types.                                                                  *)
(***************************************************************************)

\* The provers do not know that a string constant is in STRING: the bytes the
\* code writes of its own are named.
Chars ==
  STRING \cup {Quote, Backslash, "{", "}", "[", "]", ",", ":", " ", "\n", "=", "u", "0",
               "1", "t", "n", "r", "f", "b", "e", "a", "l", "s", "\t", "\r", "\f", "soh", "bs"}
         \cup {Base64Alphabet[k] : k \in 1..64}
Text == Seq(Chars)
Octets == Seq(0..255)

\* The text a pull reader is in the middle of.
PullPhases == {"first", "line", "indent", "key", "colon", "value", "comma",
               "closeLine", "closeIndent", "close"}
PullFrames == [kind : {"object", "array"}, phase : PullPhases, depth : Nat, count : Nat]

PullRecords ==
  [in : Text, failAt : Nat, taken : Nat, frames : Seq(PullFrames), pending : Text,
   pretty : BOOLEAN, baseDepth : Nat, rootStarted : BOOLEAN, rootFinished : BOOLEAN,
   finished : BOOLEAN, lex : {"none", "string", "number", "literal"}, isKey : BOOLEAN,
   escape : BOOLEAN, uni : Text, uniLeft : 0..4, uniLow : {"no", "slash", "u", "digits"},
   err : {"ok", "io", "invalid", "overflow"}]

\* A literal is begun where one stands.
Pulls == {p \in PullRecords :
            p.lex = "literal" => p.in # <<>> /\ LiteralOf(p.in[1]) # {}}

\* What the frames of a generator hold: a value of the mapping, or a key.
KeyValues == [kind : {"string"}, data : Text]
FrameKinds == {"string", "text", "base64", "json", "map", "array"}
FramePhases == {"open", "body", "next", "comma", "line", "key", "colon", "value", "done",
                "endLine", "close"}

FrameRecords ==
  [val : Values \cup KeyValues, kind : FrameKinds, depth : Nat, phase : FramePhases,
   index : Nat \ {0}, emitted : Nat, carry : Octets, rest : Text \cup Octets]

\* In the middle of a member or an item, the index is that of one.
FrameHolds(f) ==
  /\ f.kind = f.val.kind
  /\ f.kind \in {"string", "text"} => f.rest \in Text
  /\ f.kind = "base64" => f.rest \in Octets
  /\ f.kind \in {"string", "text", "base64"} => f.phase \in {"open", "body", "close"}
  /\ f.kind = "map" =>
       /\ f.phase \in FramePhases \ {"body"}
       /\ f.phase \in {"comma", "line", "key", "colon", "value"} =>
            f.index <= Len(f.val.items)
  /\ f.kind = "array" =>
       /\ f.phase \in FramePhases \ {"body", "key", "colon"}
       /\ f.phase \in {"comma", "line", "value"} => f.index <= Len(f.val.items)

GenFrames == {f \in FrameRecords : FrameHolds(f)}

GenRecords ==
  [frames : Seq(GenFrames), pending : Text, out : Text, cap : Nat, reading : BOOLEAN,
   io : Text \cup Octets, ioEof : BOOLEAN, ioOwner : Nat, pull : Pulls, chunk : Text,
   jsonOwner : Nat, finished : BOOLEAN, pretty : BOOLEAN,
   err : {"ok", "io", "invalid", "overflow"}]

\* The buffers hold no more than they can, and the I/O buffer the bytes of
\* the value that owns it, which is on the stack.
OwnerHolds(frames, owner, io) ==
  /\ owner <= Len(frames)
  /\ owner > 0 => io \in IF frames[owner].kind = "base64" THEN Octets ELSE Text

GenHolds(g) ==
  /\ Len(g.out) <= g.cap /\ Len(g.chunk) <= IoCapacity
  /\ OwnerHolds(g.frames, g.ioOwner, g.io)

Gens == {g \in GenRecords : GenHolds(g)}

-----------------------------------------------------------------------------
(***************************************************************************)
(* Helpers.                                                                *)
(***************************************************************************)

LEMMA CutFacts ==
  ASSUME NEW S, NEW s \in Seq(S), NEW n \in Nat, n <= Len(s)
  PROVE  /\ SubSeq(s, 1, n) \in Seq(S) /\ Len(SubSeq(s, 1, n)) = n
         /\ Cut(s, n) \in Seq(S) /\ Len(Cut(s, n)) = Len(s) - n
         /\ SubSeq(s, 1, n) \o Cut(s, n) = s
         /\ \A i \in 1..(Len(s) - n) : Cut(s, n)[i] = s[n + i]
<1>2. /\ SubSeq(s, 1, n) \in Seq(S) /\ Len(SubSeq(s, 1, n)) = n
      /\ \A i \in 1..n : SubSeq(s, 1, n)[i] = s[i]
  OBVIOUS
<1>3. /\ Cut(s, n) \in Seq(S) /\ Len(Cut(s, n)) = Len(s) - n
      /\ \A i \in 1..(Len(s) - n) : Cut(s, n)[i] = s[n + i]
  BY DEF Cut
<1>4. SubSeq(s, 1, n) \o Cut(s, n) = s
  <2>1. /\ SubSeq(s, 1, n) \o Cut(s, n) \in Seq(S)
        /\ Len(SubSeq(s, 1, n) \o Cut(s, n)) = Len(s)
        /\ Len(s) \in Nat
    BY <1>2, <1>3
  <2>2. ASSUME NEW i \in 1..Len(s)
        PROVE  (SubSeq(s, 1, n) \o Cut(s, n))[i] = s[i]
    <3>1. CASE i <= n
      BY <1>2, <1>3, <3>1
    <3>2. CASE i > n
      <4>1. (SubSeq(s, 1, n) \o Cut(s, n))[i] = Cut(s, n)[i - n]
        BY <1>2, <1>3, <3>2
      <4>2. i - n \in 1..(Len(s) - n) /\ n + (i - n) = i
        BY <3>2
      <4> QED
        BY <1>3, <4>1, <4>2
    <3> QED
      BY <3>1, <3>2, <2>1
  <2> QED
    BY <2>1, <2>2, SeqEqual
<1> QED
  BY <1>2, <1>3, <1>4

\* A changed element; a place that is none changes nothing.
LEMMA SeqExcept ==
  ASSUME NEW S, NEW s \in Seq(S), NEW n, NEW e, n \in 1..Len(s) => e \in S
  PROVE  /\ [s EXCEPT ![n] = e] \in Seq(S) /\ Len([s EXCEPT ![n] = e]) = Len(s)
         /\ \A j \in 1..Len(s) : [s EXCEPT ![n] = e][j] = IF j = n THEN e ELSE s[j]
<1>1. CASE n \in 1..Len(s)
  BY <1>1, ExceptSeq
<1>2. CASE n \notin 1..Len(s)
  <2>1. [s EXCEPT ![n] = e] = s
    BY <1>2
  <2> QED
    BY <1>2, <2>1
<1> QED
  BY <1>1, <1>2

LEMMA SmallerFacts ==
  ASSUME NEW m \in Nat, NEW n \in Nat
  PROVE  /\ SmallerOf(m, n) \in Nat /\ SmallerOf(m, n) <= m /\ SmallerOf(m, n) <= n
         /\ SmallerOf(m, n) = m \/ SmallerOf(m, n) = n
  BY DEF SmallerOf

LEMMA CharFacts ==
  /\ Quote \in Chars /\ Backslash \in Chars /\ "{" \in Chars /\ "}" \in Chars
  /\ "[" \in Chars /\ "]" \in Chars /\ "," \in Chars /\ ":" \in Chars /\ " " \in Chars
  /\ "\n" \in Chars /\ "=" \in Chars /\ "u" \in Chars /\ "0" \in Chars /\ "1" \in Chars
  /\ "t" \in Chars /\ "n" \in Chars /\ "r" \in Chars /\ "f" \in Chars /\ "b" \in Chars
  /\ "e" \in Chars /\ "a" \in Chars /\ "l" \in Chars /\ "s" \in Chars
  /\ \A k \in 1..64 : Base64Alphabet[k] \in Chars
  BY DEF Chars

LEMMA TupleFacts ==
  ASSUME NEW a \in Chars, NEW b \in Chars, NEW c \in Chars, NEW d \in Chars,
         NEW e \in Chars, NEW f \in Chars
  PROVE  /\ <<a>> \in Text /\ <<a, b>> \in Text /\ <<a, b, c, d>> \in Text
         /\ <<a, b, c, d, e>> \in Text /\ <<a, b, c, d, e, f>> \in Text
  BY DEF Text

LEMMA OneOrTwo ==
  ASSUME NEW a \in Chars, NEW b \in Chars
  PROVE  <<>> \in Text /\ <<a>> \in Text /\ <<a, b>> \in Text
  BY DEF Text

LEMMA TextFacts ==
  /\ Seq(STRING) \subseteq Text /\ <<>> \in Text /\ <<Quote>> \in Text /\ <<"{">> \in Text
  /\ <<"}">> \in Text /\ <<"[">> \in Text /\ <<"]">> \in Text /\ <<",">> \in Text
  /\ <<":">> \in Text /\ <<":", " ">> \in Text /\ <<Quote, ":">> \in Text
  /\ <<"\n">> \in Text
<1>1. STRING \subseteq Chars
  BY DEF Chars
<1>2. Seq(STRING) \subseteq Text
  BY <1>1, SeqMonotonic DEF Text
<1>3. /\ Quote \in Chars /\ "{" \in Chars /\ "}" \in Chars /\ "[" \in Chars /\ "]" \in Chars
      /\ "," \in Chars /\ ":" \in Chars /\ " " \in Chars /\ "\n" \in Chars
  BY CharFacts
<1> QED
  BY <1>2, <1>3, OneOrTwo, Zenon

LEMMA EscapeFacts ==
  ASSUME NEW c \in Chars
  PROVE  EscapeOf(c) \in Text
<1>1. c \in Controls \cup {Bs} => EscapeLetter[c] \in Chars
  <2>1. c \in Controls \cup {Bs} => EscapeLetter[c] \in {"t", "n", "r", "f", "b"}
    BY DEF EscapeLetter, Controls, Bs
  <2> QED
    BY <2>1, CharFacts
<1>2. CASE c \in {Quote, Backslash}
  <2>1. EscapeOf(c) = <<Backslash, c>>
    BY <1>2 DEF EscapeOf, Controls, Bs, Soh, Quote, Backslash
  <2> QED
    BY <2>1, CharFacts, OneOrTwo
<1>3. CASE c \in Controls \cup {Bs}
  <2>1. EscapeOf(c) = <<Backslash, EscapeLetter[c]>>
    BY <1>3 DEF EscapeOf, Controls, Bs, Soh, Quote, Backslash
  <2> QED
    BY <1>1, <1>3, <2>1, CharFacts, OneOrTwo
<1>4. CASE c = Soh
  <2>1. EscapeOf(c) = <<Backslash, "u", "0", "0", "0", "1">>
    BY <1>4 DEF EscapeOf, Controls, Bs, Soh, Quote, Backslash
  <2>2. Backslash \in Chars /\ "u" \in Chars /\ "0" \in Chars /\ "1" \in Chars
    BY CharFacts
  <2>3. <<Backslash, "u", "0", "0", "0", "1">> \in Text
    BY <2>2, TupleFacts
  <2> QED
    BY <2>1, <2>3
<1>5. CASE c \notin {Quote, Backslash, Soh} \cup Controls \cup {Bs}
  <2>1. EscapeOf(c) = <<c>>
    BY <1>5 DEF EscapeOf
  <2> QED
    BY <2>1, OneOrTwo
<1> QED
  BY <1>2, <1>3, <1>4, <1>5

LEMMA QuadFacts ==
  ASSUME NEW data \in Octets
  PROVE  Quad(data) \in Text
<1> DEFINE b(k) == IF k <= Len(data) THEN data[k] ELSE 0
<1>0. Len(data) \in Nat /\ \A k \in 1..Len(data) : data[k] \in 0..255
  BY LenProperties, ElementOfSeq DEF Octets
<1>1. b(1) \in 0..255 /\ b(2) \in 0..255 /\ b(3) \in 0..255
  BY <1>0
<1> DEFINE x == b(1)
           y == b(2)
           z == b(3)
<1>3. x \in 0..255 /\ y \in 0..255 /\ z \in 0..255
  BY <1>1
<1> DEFINE q1 == Base64Alphabet[(x \div 4) + 1]
           q2 == Base64Alphabet[(x % 4) * 16 + (y \div 16) + 1]
           q3 == IF Len(data) > 1 THEN Base64Alphabet[(y % 16) * 4 + (z \div 64) + 1] ELSE "="
           q4 == IF Len(data) > 2 THEN Base64Alphabet[(z % 64) + 1] ELSE "="
<1>4. Quad(data) = <<q1, q2, q3, q4>>
  BY DEF Quad
<1> HIDE DEF x, y, z
<1>5. /\ (x \div 4) + 1 \in 1..64 /\ (x % 4) * 16 + (y \div 16) + 1 \in 1..64
      /\ (y % 16) * 4 + (z \div 64) + 1 \in 1..64 /\ (z % 64) + 1 \in 1..64
  BY <1>3
<1>6. q1 \in Chars /\ q2 \in Chars /\ q3 \in Chars /\ q4 \in Chars
  BY <1>5, CharFacts
<1> HIDE DEF q1, q2, q3, q4
<1> QED
  BY <1>4, <1>6, TupleFacts, Zenon

LEMMA LiteralFacts ==
  ASSUME NEW l \in DOMAIN Literals
  PROVE  Literals[l] \in Text /\ Literals[l] # <<>>
<1>1. DOMAIN Literals = {"true", "false", "null"}
  BY DEF Literals
<1>2. /\ Literals["true"] = <<"t", "r", "u", "e">> /\ Literals["null"] = <<"n", "u", "l", "l">>
      /\ Literals["false"] = <<"f", "a", "l", "s", "e">>
  BY DEF Literals
<1>3. /\ "t" \in Chars /\ "r" \in Chars /\ "u" \in Chars /\ "e" \in Chars /\ "f" \in Chars
      /\ "a" \in Chars /\ "l" \in Chars /\ "s" \in Chars /\ "n" \in Chars
  BY CharFacts
<1>4. /\ Literals["true"] \in Text /\ Literals["false"] \in Text /\ Literals["null"] \in Text
  <2>1. <<"t", "r", "u", "e">> \in Text /\ <<"n", "u", "l", "l">> \in Text
    BY <1>3, TupleFacts
  <2>2. <<"f", "a", "l", "s", "e">> \in Text
    BY <1>3, TupleFacts
  <2> QED
    BY <1>2, <2>1, <2>2
<1>5. Literals["true"] # <<>> /\ Literals["false"] # <<>> /\ Literals["null"] # <<>>
  BY <1>2
<1> QED
  BY <1>1, <1>4, <1>5

LEMMA NullText == Literals.null \in Text
<1>1. Literals.null = <<"n", "u", "l", "l">>
  BY DEF Literals
<1>2. "n" \in Chars /\ "u" \in Chars /\ "l" \in Chars
  BY CharFacts
<1> QED
  BY <1>1, <1>2, TupleFacts, Zenon

LEMMA SpacesFacts ==
  ASSUME NEW n \in Nat
  PROVE  [k \in 1..n |-> " "] \in Text
<1>1. [k \in 1..n |-> " "] \in Seq({" "})
  OBVIOUS
<1>2. {" "} \subseteq Chars
  BY CharFacts
<1> QED
  BY <1>1, <1>2, SeqMonotonic DEF Text

LEMMA NewLineFacts ==
  ASSUME NEW depth \in Nat
  PROVE  NewLine(depth) \in Text
<1>0. 2 * depth \in Nat
  OBVIOUS
<1>1. [k \in 1..(2 * depth) |-> " "] \in Text
  BY <1>0, SpacesFacts
<1>3. \A s, t \in Text : s \o t \in Text
  BY DEF Text
<1> QED
  BY <1>1, <1>3, TextFacts, Zenon DEF NewLine

\* The least of some numbers.
LEMMA LeastExists ==
  ASSUME NEW S \in SUBSET Nat, S # {}
  PROVE  \E x \in S : \A y \in S : x <= y
<1> DEFINE R == OpToRel(<, Nat)
<1>1. \E x \in S : \A y \in S : ~(<<y, x>> \in R)
  <2>1. IsWellFoundedOn(R, Nat)
    BY NatLessThanWellFounded
  <2> HIDE DEF R
  <2> QED
    BY <2>1, WFMin
<1>2. \A x, y \in Nat : y < x => <<y, x>> \in R
  BY DEF OpToRel
<1> HIDE DEF R
<1>3. PICK x \in S : \A y \in S : ~(<<y, x>> \in R)
  BY <1>1
<1>4. ASSUME NEW y \in S PROVE x <= y
  <2>1. x \in Nat /\ y \in Nat /\ ~(y < x)
    BY <1>2, <1>3
  <2> QED
    BY <2>1
<1> QED
  BY <1>4

\* A run of elements in front has a length: k is the place of the first one
\* outside of it, or one too many.
LEMMA RunExists ==
  ASSUME NEW n \in Nat, NEW In \in SUBSET Nat
  PROVE  \E k \in 0..n : (\A i \in 1..k : i \in In) /\ (k < n => k + 1 \notin In)
<1> DEFINE Out == {k \in 1..(n + 1) : k = n + 1 \/ k \notin In}
<1>1. Out \in SUBSET Nat /\ n + 1 \in Out
  OBVIOUS
<1>2. PICK x \in Out : \A y \in Out : x <= y
  <2> HIDE DEF Out
  <2> QED
    BY <1>1, LeastExists
<1>3. x \in 1..(n + 1) /\ (x = n + 1 \/ x \notin In)
  OBVIOUS
<1>4. ASSUME NEW i \in 1..(x - 1) PROVE i \in In
  <2>1. i \in 1..(n + 1) /\ i < x
    BY <1>3
  <2> QED
    BY <1>2, <1>3, <2>1
<1>5. x - 1 \in 0..n /\ (x - 1) + 1 = x
  BY <1>3
<1> QED
  BY <1>3, <1>4, <1>5

LEMMA PlainRunFactsGen ==
  ASSUME NEW s \in Text
  PROVE  PlainRun(s) \in 0..Len(s)
<1> DEFINE In == {i \in 1..Len(s) : ~NeedsEscape(s[i])}
<1>1. Len(s) \in Nat /\ In \in SUBSET Nat
  BY DEF Text
<1>2. PICK k \in 0..Len(s) : (\A i \in 1..k : i \in In) /\ (k < Len(s) => k + 1 \notin In)
  <2> HIDE DEF In
  <2> QED
    BY <1>1, RunExists
<1>3. k < Len(s) => k + 1 \in 1..Len(s)
  BY <1>1
<1>4. /\ \A i \in 1..k : ~NeedsEscape(s[i])
      /\ k < Len(s) => NeedsEscape(s[k + 1])
  BY <1>2, <1>3
<1> QED
  BY <1>4 DEF PlainRun

-----------------------------------------------------------------------------
(***************************************************************************)
(* The pull reader keeps its type.                                         *)
(***************************************************************************)

LEMMA PendFacts ==
  ASSUME NEW p \in PullRecords, NEW b \in Text
  PROVE  Pend(p, b) \in PullRecords /\ Pend(p, b).lex = p.lex
  BY DEF Pend, PullRecords

LEMMA PullFailFacts ==
  ASSUME NEW p \in Pulls, NEW status \in {"io", "invalid", "overflow"}
  PROVE  PullFail(p, status) \in Pulls
  BY DEF PullFail, PullRecords, Pulls

\* What is no literal needs no byte in front.
LEMMA PullsFacts ==
  ASSUME NEW p \in PullRecords, p.lex # "literal"
  PROVE  p \in Pulls
  BY DEF Pulls

LEMMA TakeFacts ==
  ASSUME NEW p \in PullRecords, NEW n \in Nat, n <= Len(p.in)
  PROVE  /\ Take(p, n) \in PullRecords /\ Take(p, n).lex = p.lex
         /\ Take(p, n).frames = p.frames /\ Take(p, n).isKey = p.isKey
         /\ Take(p, n).baseDepth = p.baseDepth /\ Take(p, n).pretty = p.pretty
         /\ Take(p, n).uniLeft = p.uniLeft /\ Take(p, n).uniLow = p.uniLow
         /\ Take(p, n).in = SubSeq(p.in, n + 1, Len(p.in))
         /\ n < Len(p.in) => Take(p, n).in # <<>> /\ Take(p, n).in[1] = p.in[n + 1]
<1>1. p.in \in Text
  BY DEF PullRecords
<1>2. /\ Cut(p.in, n) \in Text /\ Len(Cut(p.in, n)) = Len(p.in) - n
      /\ \A i \in 1..(Len(p.in) - n) : Cut(p.in, n)[i] = p.in[n + i]
  BY <1>1, CutFacts DEF Text
<1>3. n < Len(p.in) => Cut(p.in, n) # <<>> /\ Cut(p.in, n)[1] = p.in[n + 1]
  <2>1. Len(p.in) \in Nat
    BY <1>1 DEF Text
  <2>2. n < Len(p.in) => 1 \in 1..(Len(p.in) - n) /\ Len(p.in) - n # 0
    BY <2>1
  <2>3. Cut(p.in, n) = <<>> => Len(Cut(p.in, n)) = 0
    OBVIOUS
  <2> QED
    BY <1>2, <2>2, <2>3
<1>4. Take(p, n) = [p EXCEPT !.in = Cut(p.in, n), !.taken = p.taken + n]
  BY DEF Take, Cut, PullRecords
<1>5. p.taken + n \in Nat
  BY DEF PullRecords
<1> DEFINE t == p.taken + n
<1> HIDE DEF t
<1>6. /\ [p EXCEPT !.in = Cut(p.in, n), !.taken = t] \in PullRecords
      /\ [p EXCEPT !.in = Cut(p.in, n), !.taken = t].in = Cut(p.in, n)
  BY <1>2, <1>5 DEF PullRecords, t
<1> QED
  BY <1>3, <1>4, <1>6 DEF Cut, PullRecords, t

LEMMA BlankFacts ==
  ASSUME NEW p \in PullRecords
  PROVE  Blank(p) \in 0..Len(p.in)
<1> DEFINE n == Len(p.in)
           In == {i \in 1..n : p.in[i] \in Spaces}
<1>1. n \in Nat /\ In \in SUBSET Nat
  BY DEF PullRecords, Text
<1>2. PICK k \in 0..n : (\A i \in 1..k : i \in In) /\ (k < n => k + 1 \notin In)
  <2> HIDE DEF In
  <2> QED
    BY <1>1, RunExists
<1>3. k < n => k + 1 \in 1..n
  BY <1>1
<1>4. /\ \A i \in 1..k : p.in[i] \in Spaces
      /\ k < n => p.in[k + 1] \notin Spaces
  BY <1>2, <1>3
<1> QED
  BY <1>4 DEF Blank

\* A byte that is seen is there.
LEMMA PeekFacts ==
  ASSUME NEW p \in PullRecords
  PROVE  /\ SkipBlank(p) \in PullRecords /\ SkipBlank(p).lex = p.lex
         /\ SkipBlank(p).frames = p.frames /\ SkipBlank(p).pretty = p.pretty
         /\ Peek(p) \notin {"fail", "eof"} =>
              /\ SkipBlank(p).in # <<>> /\ SkipBlank(p).in[1] = Peek(p)
              /\ TakePeeked(p) \in PullRecords /\ TakePeeked(p).lex = p.lex
              /\ TakePeeked(p).frames = p.frames /\ TakePeeked(p).pretty = p.pretty
<1> DEFINE n == Blank(p)
<1>1. n \in Nat /\ n <= Len(p.in) /\ Len(p.in) \in Nat
  BY BlankFacts DEF PullRecords, Text
<1>2. Peek(p) \notin {"fail", "eof"} => n < Len(p.in) /\ Peek(p) = p.in[n + 1]
  BY <1>1 DEF Peek
<1> HIDE DEF n
<1>3. n < Len(p.in) => n + 1 \in Nat /\ n + 1 <= Len(p.in)
  BY <1>1
<1> QED
  BY <1>1, <1>2, <1>3, TakeFacts DEF SkipBlank, TakePeeked, n

LEMMA SetPhaseFacts ==
  ASSUME NEW p \in PullRecords, NEW phase \in PullPhases
  PROVE  SetPhase(p, phase) \in PullRecords /\ SetPhase(p, phase).lex = p.lex
<1> DEFINE n == Len(p.frames)
           e == [p.frames[n] EXCEPT !.phase = phase]
           fs == [p.frames EXCEPT ![n] = e]
<1>1. p.frames \in Seq(PullFrames) /\ n \in Nat
  BY DEF PullRecords
<1>2. n \in 1..n => e \in PullFrames
  <2>1. n \in 1..n => p.frames[n] \in PullFrames
    BY <1>1
  <2>2. \A f \in PullFrames : [f EXCEPT !.phase = phase] \in PullFrames
    BY DEF PullFrames
  <2> QED
    BY <2>1, <2>2
<1>3. SetPhase(p, phase) = [p EXCEPT !.frames = fs]
  BY DEF SetPhase
<1> HIDE DEF e
<1>4. fs \in Seq(PullFrames)
  BY <1>1, <1>2, SeqExcept
<1> HIDE DEF fs
<1> QED
  BY <1>3, <1>4 DEF PullRecords

LEMMA ValueCompleteFacts ==
  ASSUME NEW p \in PullRecords
  PROVE  ValueComplete(p) \in PullRecords /\ ValueComplete(p).lex = p.lex
<1>1. CASE p.frames = <<>>
  BY <1>1 DEF ValueComplete, PullRecords
<1>2. CASE p.frames # <<>> /\ TopPhase(p) = "value"
  <2> DEFINE q == SetPhase(p, "comma")
             n == Len(p.frames)
             e == [q.frames[n] EXCEPT !.count = @ + 1]
             fs == [q.frames EXCEPT ![n] = e]
  <2>1. q \in PullRecords /\ q.lex = p.lex
    BY SetPhaseFacts DEF PullPhases
  <2>2. ValueComplete(p) = [q EXCEPT !.frames[n].count = @ + 1]
    BY <1>2 DEF ValueComplete
  <2> HIDE DEF q, n
  <2>3. q.frames \in Seq(PullFrames)
    BY <2>1 DEF PullRecords
  <2>4. n \in 1..Len(q.frames) => e \in PullFrames
    <3>1. n \in 1..Len(q.frames) => q.frames[n] \in PullFrames
      BY <2>3
    <3>2. \A f \in PullFrames : [f EXCEPT !.count = @ + 1] \in PullFrames
      BY DEF PullFrames
    <3> QED
      BY <3>1, <3>2
  <2>5. [q EXCEPT !.frames[n].count = @ + 1] = [q EXCEPT !.frames = fs]
    OBVIOUS
  <2> HIDE DEF e
  <2>6. fs \in Seq(PullFrames)
    BY <2>3, <2>4, SeqExcept
  <2> HIDE DEF fs
  <2>7. [q EXCEPT !.frames = fs] \in PullRecords /\ [q EXCEPT !.frames = fs].lex = q.lex
    BY <2>1, <2>6 DEF PullRecords
  <2> QED
    BY <2>1, <2>2, <2>5, <2>7, Zenon
<1>3. CASE p.frames # <<>> /\ TopPhase(p) # "value"
  BY <1>3 DEF ValueComplete
<1> QED
  BY <1>1, <1>2, <1>3

LEMMA BeginStringFacts ==
  ASSUME NEW p \in PullRecords, NEW isKey \in BOOLEAN
  PROVE  BeginString(p, isKey) \in Pulls
<1> DEFINE e == <<>>
           q == [p EXCEPT !.lex = "string", !.isKey = isKey, !.escape = FALSE,
                          !.uni = e, !.uniLeft = 0, !.uniLow = "no"]
<1>0. e \in Text
  BY TextFacts, Zenon
<1>2. BeginString(p, isKey) = Pend(q, <<Quote>>)
  BY DEF BeginString
<1> HIDE DEF e
<1> DEFINE h == [p EXCEPT !.lex = "string", !.isKey = isKey, !.escape = FALSE]
<1>3. h \in PullRecords /\ h.lex = "string"
  BY DEF PullRecords
<1>4. q = [h EXCEPT !.uni = e, !.uniLeft = 0, !.uniLow = "no"]
  BY DEF PullRecords
<1> HIDE DEF q, h
<1>5. 0 \in 0..4 /\ "no" \in {"no", "slash", "u", "digits"}
  OBVIOUS
<1>1. q \in PullRecords /\ q.lex = "string"
  BY <1>0, <1>3, <1>4, <1>5 DEF PullRecords
<1> QED
  BY <1>1, <1>2, PendFacts, PullsFacts, TextFacts

LEMMA PushFrameFacts ==
  ASSUME NEW p \in PullRecords, NEW kind \in {"object", "array"}, NEW depth \in Nat
  PROVE  /\ PushFrame(p, kind, depth, "first") \in PullRecords
         /\ PushFrame(p, kind, depth, "first").lex = p.lex
<1> DEFINE f == [kind |-> kind, phase |-> "first", depth |-> depth, count |-> 0]
<1>1. f \in PullFrames
  BY DEF PullFrames, PullPhases
<1>2. PushFrame(p, kind, depth, "first") = [p EXCEPT !.frames = Append(p.frames, f)]
  BY DEF PushFrame, PullRecords
<1> HIDE DEF f
<1>3. Append(p.frames, f) \in Seq(PullFrames)
  BY <1>1 DEF PullRecords
<1> DEFINE fs == Append(p.frames, f)
<1> HIDE DEF fs
<1> QED
  BY <1>2, <1>3 DEF PullRecords, fs

LEMMA StartPullValueFacts ==
  ASSUME NEW p \in PullRecords, p.lex = "none", NEW depth \in Nat
  PROVE  StartPullValue(p, depth) \in Pulls
<1> DEFINE q == [p EXCEPT !.rootStarted = TRUE]
           c == Peek(q)
           r == TakePeeked(q)
           s == SkipBlank(q)
<1>1. q \in PullRecords /\ q.lex = "none"
  BY DEF PullRecords
<1>2. q \in Pulls
  BY <1>1, PullsFacts
<1>3. s \in PullRecords /\ s.lex = "none"
  BY <1>1, PeekFacts
<1>4. c \notin {"fail", "eof"} => /\ r \in PullRecords /\ r.lex = "none"
                                   /\ s.in # <<>> /\ s.in[1] = c
  BY <1>1, PeekFacts
<1>5. \/ c = "fail" /\ StartPullValue(p, depth) = PullFail(q, "io")
      \/ c = "eof" /\ StartPullValue(p, depth) = PullFail(q, "invalid")
      \/ c \notin {"fail", "eof"} /\ StartPullValue(p, depth) = BeginString(r, FALSE)
      \/ /\ c \notin {"fail", "eof"}
         /\ StartPullValue(p, depth) = Pend(PushFrame(r, "object", depth, "first"), <<"{">>)
      \/ /\ c \notin {"fail", "eof"}
         /\ StartPullValue(p, depth) = Pend(PushFrame(r, "array", depth, "first"), <<"[">>)
      \/ c \notin {"fail", "eof"} /\ StartPullValue(p, depth) = [s EXCEPT !.lex = "number"]
      \/ /\ c \notin {"fail", "eof"} /\ LiteralOf(c) # {}
         /\ StartPullValue(p, depth) = [s EXCEPT !.lex = "literal"]
      \/ c \notin {"fail", "eof"} /\ StartPullValue(p, depth) = PullFail(r, "invalid")
  <2>1. LiteralOf("fail") = {} /\ LiteralOf("eof") = {}
    BY DEF LiteralOf, Literals
  <2>2. {"fail", "eof"} \cap (NumberBytes \cup {Quote, "{", "["}) = {}
    BY DEF NumberBytes, Digits, NonZero, Quote
  <2> DEFINE v1 == PullFail(q, "io")
             v2 == PullFail(q, "invalid")
             v3 == BeginString(r, FALSE)
             v4 == Pend(PushFrame(r, "object", depth, "first"), <<"{">>)
             v5 == Pend(PushFrame(r, "array", depth, "first"), <<"[">>)
             v6 == [s EXCEPT !.lex = "number"]
             v7 == [s EXCEPT !.lex = "literal"]
             v8 == PullFail(r, "invalid")
  <2>3. StartPullValue(p, depth) =
          CASE c = "fail" -> v1 [] c = "eof" -> v2 [] c = Quote -> v3 [] c = "{" -> v4
            [] c = "[" -> v5 [] c \in NumberBytes \ {"+", ".", "e", "E"} -> v6
            [] LiteralOf(c) # {} -> v7 [] OTHER -> v8
    BY Zenon DEF StartPullValue
  <2> HIDE DEF q, c, r, s, v1, v2, v3, v4, v5, v6, v7, v8
  <2>4. \/ c = "fail" /\ StartPullValue(p, depth) = v1
        \/ c = "eof" /\ StartPullValue(p, depth) = v2
        \/ c \notin {"fail", "eof"} /\ StartPullValue(p, depth) \in {v3, v4, v5, v6, v8}
        \/ c \notin {"fail", "eof"} /\ LiteralOf(c) # {} /\ StartPullValue(p, depth) = v7
    BY <2>1, <2>2, <2>3
  <2> QED
    BY <2>4 DEF v1, v2, v3, v4, v5, v6, v7, v8
<1> HIDE DEF q, c, r, s
<1>6. PullFail(q, "io") \in Pulls /\ PullFail(q, "invalid") \in Pulls
  BY <1>2, PullFailFacts
<1>7. c \notin {"fail", "eof"} => PullFail(r, "invalid") \in Pulls
  BY <1>4, PullsFacts, PullFailFacts
<1>8. c \notin {"fail", "eof"} => BeginString(r, FALSE) \in Pulls
  BY <1>4, BeginStringFacts
<1>9. c \notin {"fail", "eof"} =>
        /\ Pend(PushFrame(r, "object", depth, "first"), <<"{">>) \in Pulls
        /\ Pend(PushFrame(r, "array", depth, "first"), <<"[">>) \in Pulls
  <2>1. SUFFICES ASSUME c \notin {"fail", "eof"}
                 PROVE  /\ Pend(PushFrame(r, "object", depth, "first"), <<"{">>) \in Pulls
                        /\ Pend(PushFrame(r, "array", depth, "first"), <<"[">>) \in Pulls
    OBVIOUS
  <2>2. \A kind \in {"object", "array"} :
          PushFrame(r, kind, depth, "first") \in PullRecords
          /\ PushFrame(r, kind, depth, "first").lex = "none"
    BY <1>4, <2>1, PushFrameFacts
  <2> QED
    BY <2>2, TextFacts, PendFacts, PullsFacts
<1>10. [s EXCEPT !.lex = "number"] \in Pulls
  BY <1>3 DEF PullRecords, Pulls
<1>11. c \notin {"fail", "eof"} /\ LiteralOf(c) # {} => [s EXCEPT !.lex = "literal"] \in Pulls
  BY <1>3, <1>4 DEF PullRecords, Pulls
<1> HIDE DEF Pulls
<1> QED
  BY <1>5, <1>6, <1>7, <1>8, <1>9, <1>10, <1>11, Zenon

LEMMA StepNumberFacts ==
  ASSUME NEW p \in Pulls
  PROVE  StepNumber(p) \in Pulls
<1> DEFINE n == CHOOSE k \in 0..Len(p.in) :
                  /\ \A j \in 1..k : p.in[j] \in NumberBytes
                  /\ k < Len(p.in) => p.in[k + 1] \notin NumberBytes
<1>1. p \in PullRecords /\ p.in \in Text /\ Len(p.in) \in Nat
  BY DEF Pulls, PullRecords, Text
<1>2. n \in 0..Len(p.in)
  <2> DEFINE m == Len(p.in)
             In == {i \in 1..m : p.in[i] \in NumberBytes}
  <2>1. m \in Nat /\ In \in SUBSET Nat
    BY <1>1
  <2>2. PICK k \in 0..m : (\A i \in 1..k : i \in In) /\ (k < m => k + 1 \notin In)
    <3> HIDE DEF In
    <3> QED
      BY <2>1, RunExists
  <2>3. k < m => k + 1 \in 1..m
    BY <2>1
  <2>4. /\ \A i \in 1..k : p.in[i] \in NumberBytes
        /\ k < m => p.in[k + 1] \notin NumberBytes
    BY <2>2, <2>3
  <2> QED
    BY <2>4
<1> DEFINE number == SubSeq(p.in, 1, n)
           t == [Take(p, n) EXCEPT !.lex = "none"]
<1>3. StepNumber(p) \in {PullFail(p, "overflow"), PullFail(p, "io"), PullFail(p, "invalid"),
                         Pend(ValueComplete(t), number)}
  BY DEF StepNumber
<1> HIDE DEF n
<1>4. number \in Text
  BY <1>1, <1>2, CutFacts DEF Text
<1>5. Take(p, n) \in PullRecords
  <2>1. n \in Nat /\ n <= Len(p.in)
    BY <1>1, <1>2
  <2> QED
    BY <1>1, <2>1, TakeFacts
<1>6. t \in PullRecords /\ t.lex = "none"
  BY <1>5 DEF PullRecords
<1> HIDE DEF t, number
<1>7. Pend(ValueComplete(t), number) \in Pulls
  BY <1>4, <1>6, ValueCompleteFacts, PendFacts, PullsFacts
<1> QED
  BY <1>3, <1>7, PullFailFacts

LEMMA StepLiteralFacts ==
  ASSUME NEW p \in Pulls, p.lex = "literal"
  PROVE  StepLiteral(p) \in Pulls
<1> DEFINE word == Literals[CHOOSE l \in LiteralOf(p.in[1]) : TRUE]
           Same(k) == IsPrefix(SubSeq(word, 1, k), p.in)
           same == CHOOSE k \in 0..Len(word) : Same(k) /\ (k < Len(word) => ~Same(k + 1))
<1>1. p \in PullRecords /\ p.in \in Text /\ Len(p.in) \in Nat
  BY DEF Pulls, PullRecords, Text
<1>2. word \in Text /\ Len(word) \in Nat
  <2>1. (CHOOSE l \in LiteralOf(p.in[1]) : TRUE) \in DOMAIN Literals
    BY DEF Pulls, LiteralOf
  <2>2. word \in Text
    BY <2>1, LiteralFacts
  <2> QED
    BY <2>2 DEF Text
<1> DEFINE t == [Take(p, same) EXCEPT !.lex = "none"]
           fail == PullFail(p, IF Lost(p, same + 1) THEN "io" ELSE "invalid")
<1>3. StepLiteral(p) = CASE same < Len(word) -> fail
                         [] same = Len(word) /\ Lost(p, same) -> PullFail(p, "io")
                         [] OTHER -> Pend(ValueComplete(t), word)
  BY Zenon DEF StepLiteral
<1> HIDE DEF word
<1>4. same \in 0..Len(word) /\ Same(same)
  <2> DEFINE n == Len(word)
             In == {i \in 1..n : Same(i)}
  <2>1. n \in Nat /\ In \in SUBSET Nat
    BY <1>2
  <2>2. PICK k \in 0..n : (\A i \in 1..k : i \in In) /\ (k < n => k + 1 \notin In)
    <3> HIDE DEF In
    <3> QED
      BY <2>1, RunExists
  <2>3. k < n => k + 1 \in 1..n
    BY <2>1
  <2>4. Same(0)
    <3>1. SubSeq(word, 1, 0) = <<>>
      BY <1>2 DEF Text
    <3>2. Len(<<>>) = 0 /\ 0 <= Len(p.in)
      BY <1>1
    <3>3. SubSeq(<<>>, 1, 0) = <<>> /\ SubSeq(p.in, 1, 0) = <<>>
      BY <1>1 DEF Text
    <3> QED
      BY <3>1, <3>2, <3>3 DEF IsPrefix
  <2>5. k = 0 \/ k \in 1..k
    BY <2>1
  <2> HIDE DEF Same
  <2>6. Same(k) /\ (k < n => ~Same(k + 1))
    BY <2>2, <2>3, <2>4, <2>5
  <2> QED
    BY <2>6
<1> HIDE DEF same
<1>5. same = Len(word) => same \in Nat /\ same <= Len(p.in)
  <2>1. Len(SubSeq(word, 1, same)) = same
    <3>1. same \in Nat /\ same <= Len(word)
      BY <1>2, <1>4
    <3> QED
      BY <1>2, <3>1, CutFacts DEF Text
  <2> QED
    BY <1>2, <1>4, <2>1 DEF IsPrefix
<1>6. same = Len(word) => t \in PullRecords /\ t.lex = "none"
  <2>1. SUFFICES ASSUME same = Len(word) PROVE t \in PullRecords /\ t.lex = "none"
    OBVIOUS
  <2>2. Take(p, same) \in PullRecords
    BY <1>1, <1>5, <2>1, TakeFacts
  <2> QED
    BY <2>2 DEF PullRecords
<1> HIDE DEF t
<1>7. same = Len(word) => Pend(ValueComplete(t), word) \in Pulls
  BY <1>2, <1>6, ValueCompleteFacts, PendFacts, PullsFacts
<1>8. PullFail(p, "io") \in Pulls /\ fail \in Pulls
  BY PullFailFacts
<1> HIDE DEF fail
<1>9. same < Len(word) \/ same = Len(word)
  BY <1>2, <1>4
<1> QED
  BY <1>3, <1>7, <1>8, <1>9

LEMMA EndPullStringFacts ==
  ASSUME NEW p \in PullRecords
  PROVE  EndPullString(p) \in Pulls
<1> DEFINE q == [p EXCEPT !.lex = "none"]
           v == IF p.isKey THEN SetPhase(q, "colon") ELSE ValueComplete(q)
<1>1. q \in PullRecords /\ q.lex = "none"
  BY DEF PullRecords
<1>2. EndPullString(p) = Pend(v, <<Quote>>)
  BY DEF EndPullString
<1> HIDE DEF q
<1>3. v \in PullRecords /\ v.lex = "none"
  BY <1>1, SetPhaseFacts, ValueCompleteFacts DEF PullPhases
<1> HIDE DEF v
<1> QED
  BY <1>2, <1>3, TextFacts, PendFacts, PullsFacts

LEMMA StartHexFacts ==
  ASSUME NEW p \in PullRecords, NEW low \in {"no", "digits"}
  PROVE  StartHex(p, low) \in PullRecords /\ StartHex(p, low).lex = p.lex
<1> DEFINE e == <<>>
           h == [p EXCEPT !.escape = FALSE, !.uniLeft = 4]
<1>1. e \in Text
  BY TextFacts, Zenon
<1>2. StartHex(p, low) = [h EXCEPT !.uni = e, !.uniLow = low]
  BY DEF StartHex, PullRecords
<1> HIDE DEF e
<1>4. 4 \in 0..4
  OBVIOUS
<1>3. h \in PullRecords /\ h.lex = p.lex
  BY <1>4 DEF PullRecords
<1> HIDE DEF h
<1> QED
  BY <1>1, <1>2, <1>3 DEF PullRecords

LEMMA StepHexFacts ==
  ASSUME NEW p \in PullRecords, p.lex = "string", NEW c \in Chars, p.uniLeft > 0,
         p.uniLow \in {"no", "digits"}
  PROVE  StepHex(p, c) \in Pulls
<1> DEFINE digits == Append(p.uni, c)
           h == [p EXCEPT !.uniLeft = @ - 1, !.uni = digits]
           q == Pend(h, <<c>>)
           e == <<>>
           cp == UniValue(digits)
           v1 == [q EXCEPT !.uni = e, !.uniLow = "no"]
           v2 == [q EXCEPT !.uni = e, !.uniLow = "slash"]
           v3 == [q EXCEPT !.uni = e]
           bad == PullFail(p, "invalid")
<1>1. digits \in Text /\ e \in Text /\ <<c>> \in Text
  <2>1. p.uni \in Text
    BY DEF PullRecords
  <2> QED
    BY <2>1 DEF Text
<1>2. StepHex(p, c) =
        CASE c \notin HexDigits -> bad
          [] c \in HexDigits /\ p.uniLeft > 1 -> q
          [] c \in HexDigits /\ p.uniLeft = 1 /\ p.uniLow = "digits" ->
               (IF IsLow(cp) THEN v1 ELSE bad)
          [] c \in HexDigits /\ p.uniLeft = 1 /\ p.uniLow = "no" ->
               (CASE IsHigh(cp) -> v2 [] IsLow(cp) -> bad [] OTHER -> v3)
  BY Zenon DEF StepHex
<1> HIDE DEF digits, e, cp
<1>3. p.uniLeft \in 0..4 /\ p.uniLeft - 1 \in 0..4
  BY DEF PullRecords
<1> DEFINE left == p.uniLeft - 1
<1>4. h = [p EXCEPT !.uniLeft = left, !.uni = digits]
  BY DEF PullRecords
<1> HIDE DEF h, left
<1>5. h \in PullRecords /\ h.lex = "string"
  BY <1>1, <1>3, <1>4 DEF PullRecords, left
<1>6. q \in PullRecords /\ q.lex = "string"
  BY <1>1, <1>5, PendFacts
<1> HIDE DEF q
<1>7. /\ v1 \in PullRecords /\ v1.lex = "string" /\ v2 \in PullRecords /\ v2.lex = "string"
      /\ v3 \in PullRecords /\ v3.lex = "string"
  BY <1>1, <1>6 DEF PullRecords
<1>8. bad \in Pulls
  BY PullsFacts, PullFailFacts
<1> HIDE DEF v1, v2, v3, bad
<1>9. q \in Pulls /\ v1 \in Pulls /\ v2 \in Pulls /\ v3 \in Pulls
  BY <1>6, <1>7, PullsFacts
<1>10. c \notin HexDigits \/ p.uniLeft > 1 \/ p.uniLeft = 1
  BY <1>3
<1> QED
  BY <1>2, <1>8, <1>9, <1>10

LEMMA StepStringFacts ==
  ASSUME NEW p \in Pulls, p.lex = "string"
  PROVE  StepString(p) \in Pulls
<1> DEFINE c == p.in[1]
           q == Take(p, 1)
           bad == PullFail(q, "invalid")
           v1 == Pend([q EXCEPT !.uniLow = "u"], <<c>>)
           v2 == Pend(StartHex(q, "digits"), <<c>>)
           v3 == StepHex(q, c)
           v4 == Pend(StartHex(q, "no"), <<c>>)
           v5 == Pend([q EXCEPT !.escape = FALSE], <<c>>)
           v6 == EndPullString(q)
           v7 == Pend([q EXCEPT !.escape = (c = Backslash)], <<c>>)
           inner == CASE p.uniLow = "slash" -> (IF c = Backslash THEN v1 ELSE bad)
                      [] p.uniLow = "u" -> (IF c = "u" THEN v2 ELSE bad)
                      [] p.uniLeft > 0 /\ p.uniLow \in {"no", "digits"} -> v3
                      [] p.escape -> (CASE c = "u" -> v4 [] c \in SimpleEscapes -> v5
                                        [] OTHER -> bad)
                      [] OTHER -> (CASE c = Quote -> v6 [] c \in Controls -> bad
                                     [] OTHER -> v7)
<1>1. StepString(p) = CASE Lost(p, 1) -> PullFail(p, "io")
                        [] ~Lost(p, 1) /\ p.in = <<>> -> PullFail(p, "invalid")
                        [] ~Lost(p, 1) /\ p.in # <<>> -> inner
  BY Zenon DEF StepString
<1>2. PullFail(p, "io") \in Pulls /\ PullFail(p, "invalid") \in Pulls
  BY PullFailFacts
<1>3. p \in PullRecords /\ p.in \in Text
  BY DEF Pulls, PullRecords
<1>4. ASSUME p.in # <<>> PROVE inner \in Pulls
  <2>1. c \in Chars /\ 1 <= Len(p.in) /\ <<c>> \in Text
    BY <1>3, <1>4 DEF Text
  <2>2. q \in PullRecords /\ q.lex = "string" /\ q.uniLeft = p.uniLeft /\ q.uniLow = p.uniLow
    BY <1>3, <2>1, TakeFacts
  <2> HIDE DEF q, c
  <2>3. bad \in Pulls
    BY <2>2, PullsFacts, PullFailFacts
  <2>4. v1 \in Pulls
    <3>1. [q EXCEPT !.uniLow = "u"] \in PullRecords /\ [q EXCEPT !.uniLow = "u"].lex = "string"
      BY <2>2 DEF PullRecords
    <3> QED
      BY <2>1, <3>1, PendFacts, PullsFacts
  <2>5. v2 \in Pulls /\ v4 \in Pulls
    BY <2>1, <2>2, StartHexFacts, PendFacts, PullsFacts
  <2>6. p.uniLeft > 0 /\ p.uniLow \in {"no", "digits"} => v3 \in Pulls
    BY <2>1, <2>2, StepHexFacts
  <2>7. v5 \in Pulls /\ v7 \in Pulls
    <3>1. \A b \in BOOLEAN : [q EXCEPT !.escape = b] \in PullRecords
                             /\ [q EXCEPT !.escape = b].lex = "string"
      BY <2>2 DEF PullRecords
    <3>2. (c = Backslash) \in BOOLEAN
      OBVIOUS
    <3> DEFINE b == (c = Backslash)
    <3> HIDE DEF b
    <3>3. Pend([q EXCEPT !.escape = FALSE], <<c>>) \in Pulls
      BY <2>1, <3>1, PendFacts, PullsFacts
    <3>4. Pend([q EXCEPT !.escape = b], <<c>>) \in Pulls
      BY <2>1, <3>1, <3>2, PendFacts, PullsFacts DEF b
    <3> QED
      BY <3>3, <3>4 DEF b
  <2>8. v6 \in Pulls
    BY <2>2, EndPullStringFacts
  <2> HIDE DEF bad, v1, v2, v3, v4, v5, v6, v7
  <2> QED
    BY <2>3, <2>4, <2>5, <2>6, <2>7, <2>8
<1> HIDE DEF inner
<1> QED
  BY <1>1, <1>2, <1>4

LEMMA IndentFacts ==
  ASSUME NEW p \in PullRecords, NEW depth \in Nat
  PROVE  Indent(p, depth) \in Text
<1>1. 2 * (p.baseDepth + depth) \in Nat
  BY DEF PullRecords
<1> DEFINE n == 2 * (p.baseDepth + depth)
<1> HIDE DEF n
<1>2. [k \in 1..n |-> " "] \in Text
  BY <1>1, SpacesFacts DEF n
<1> QED
  BY <1>2 DEF Indent, n

LEMMA PhasePendFacts ==
  ASSUME NEW p \in PullRecords, p.lex = "none", NEW phase \in PullPhases, NEW b \in Text
  PROVE  Pend(SetPhase(p, phase), b) \in Pulls
  BY SetPhaseFacts, PendFacts, PullsFacts

LEMMA StepFrameFacts ==
  ASSUME NEW p \in Pulls, p.lex = "none", p.frames # <<>>
  PROVE  StepFrame(p) \in Pulls
<1> DEFINE f == Last(p.frames)
           c == Peek(p)
           t == TakePeeked(p)
           reads == f.phase \in {"first", "key", "colon", "comma"}
           member == MemberPhase(p, f.kind)
           io == PullFail(p, "io")
           bad == PullFail(p, "invalid")
           v1 == IF c = Closer(f.kind) THEN SetPhase(t, "close") ELSE SetPhase(SkipBlank(p), member)
           v2 == Pend(SetPhase(p, "indent"), <<"\n">>)
           v3 == Pend(SetPhase(p, IF f.kind = "object" THEN "key" ELSE "value"),
                      Indent(p, f.depth + 1))
           v4 == IF c = Quote THEN BeginString(t, TRUE) ELSE bad
           v5 == IF c = ":" THEN Pend(SetPhase(t, "value"), IF p.pretty THEN <<":", " ">> ELSE <<":">>)
                 ELSE bad
           v6 == StartPullValue(p, f.depth + 1)
           v7 == CASE c = "," -> Pend(SetPhase(t, member), <<",">>)
                   [] c = Closer(f.kind) -> SetPhase(t, IF p.pretty THEN "closeLine" ELSE "close")
                   [] OTHER -> bad
           v8 == Pend(SetPhase(p, "closeIndent"), <<"\n">>)
           v9 == Pend(SetPhase(p, "close"), Indent(p, f.depth))
           v10 == Pend(ValueComplete([p EXCEPT !.frames = Front(@)]), <<Closer(f.kind)>>)
<1>1. StepFrame(p) =
        CASE reads /\ c = "fail" -> io
          [] reads /\ c = "eof" -> bad
          [] f.phase = "first" /\ c \notin {"fail", "eof"} -> v1
          [] f.phase = "line" -> v2
          [] f.phase = "indent" -> v3
          [] f.phase = "key" /\ c \notin {"fail", "eof"} -> v4
          [] f.phase = "colon" /\ c \notin {"fail", "eof"} -> v5
          [] f.phase = "value" -> v6
          [] f.phase = "comma" /\ c \notin {"fail", "eof"} -> v7
          [] f.phase = "closeLine" -> v8
          [] f.phase = "closeIndent" -> v9
          [] f.phase = "close" -> v10
  BY Zenon DEF StepFrame
<1>2. p \in PullRecords /\ p.frames \in Seq(PullFrames) /\ p.pretty \in BOOLEAN
  BY DEF Pulls, PullRecords
<1>3. f \in PullFrames
  BY <1>2 DEF Last
<1>4. f.depth \in Nat /\ f.depth + 1 \in Nat /\ f.phase \in PullPhases
      /\ f.kind \in {"object", "array"}
  BY <1>3 DEF PullFrames
<1>5. member \in PullPhases
  BY DEF MemberPhase, PullPhases
<1>6. {"close", "indent", "key", "value", "closeLine", "closeIndent"} \subseteq PullPhases
  BY DEF PullPhases
<1>7. io \in Pulls /\ bad \in Pulls
  BY PullFailFacts
<1>8. /\ SkipBlank(p) \in PullRecords /\ SkipBlank(p).lex = "none"
      /\ c \notin {"fail", "eof"} => t \in PullRecords /\ t.lex = "none"
  BY <1>2, PeekFacts
<1>9. Closer(f.kind) \in Chars /\ <<Closer(f.kind)>> \in Text
  <2>1. Closer(f.kind) \in {"}", "]"}
    BY DEF Closer
  <2> QED
    BY <2>1, TextFacts, CharFacts
<1>10. Front(p.frames) \in Seq(PullFrames)
  BY <1>2 DEF Front
<1> HIDE DEF f, c, t, member
<1>11. c \notin {"fail", "eof"} => v1 \in Pulls
  BY <1>5, <1>6, <1>8, SetPhaseFacts, PullsFacts
<1>12. v2 \in Pulls /\ v8 \in Pulls
  <2>1. <<"\n">> \in Text /\ "indent" \in PullPhases /\ "closeIndent" \in PullPhases
    BY <1>6, TextFacts
  <2> QED
    BY <1>2, <2>1, PhasePendFacts
<1>13. v3 \in Pulls
  <2> DEFINE ph == IF f.kind = "object" THEN "key" ELSE "value"
             ind == Indent(p, f.depth + 1)
  <2>1. ph \in PullPhases /\ ind \in Text
    BY <1>2, <1>4, <1>6, IndentFacts
  <2> HIDE DEF ph, ind
  <2>2. Pend(SetPhase(p, ph), ind) \in Pulls
    BY <1>2, <2>1, SetPhaseFacts, PendFacts, PullsFacts
  <2> QED
    BY <2>2 DEF ph, ind
<1>14. c \notin {"fail", "eof"} => v4 \in Pulls
  BY <1>7, <1>8, BeginStringFacts
<1>15. c \notin {"fail", "eof"} => v5 \in Pulls
  <2> DEFINE b == IF p.pretty THEN <<":", " ">> ELSE <<":">>
  <2>1. b \in Text
    BY TextFacts
  <2> HIDE DEF b
  <2>2. c \notin {"fail", "eof"} => Pend(SetPhase(t, "value"), b) \in Pulls
    <3>1. "value" \in PullPhases
      BY <1>6
    <3> QED
      BY <1>8, <2>1, <3>1, PhasePendFacts
  <2> QED
    BY <1>7, <2>2 DEF b
<1>16. v6 \in Pulls
  BY <1>2, <1>4, StartPullValueFacts
<1>17. c \notin {"fail", "eof"} => v7 \in Pulls
  <2> DEFINE ph == IF p.pretty THEN "closeLine" ELSE "close"
             x1 == Pend(SetPhase(t, member), <<",">>)
             x2 == SetPhase(t, ph)
  <2>1. c \notin {"fail", "eof"} => x1 \in Pulls
    <3>1. <<",">> \in Text
      BY TextFacts
    <3> QED
      BY <1>5, <1>8, <3>1, PhasePendFacts
  <2>2. ph \in PullPhases
    BY <1>6
  <2> HIDE DEF ph
  <2>3. c \notin {"fail", "eof"} => x2 \in Pulls
    BY <1>8, <2>2, SetPhaseFacts, PullsFacts
  <2>4. v7 = CASE c = "," -> x1 [] c = Closer(f.kind) -> x2 [] OTHER -> bad
    BY Zenon DEF ph
  <2> HIDE DEF x1, x2, bad, v7
  <2> QED
    BY <1>7, <2>1, <2>3, <2>4
<1>18. v9 \in Pulls
  <2>1. Indent(p, f.depth) \in Text /\ "close" \in PullPhases
    BY <1>2, <1>4, <1>6, IndentFacts
  <2> QED
    BY <1>2, <2>1, PhasePendFacts
<1>19. v10 \in Pulls
  <2> DEFINE fs == Front(p.frames)
             h == [p EXCEPT !.frames = fs]
  <2>1. v10 = Pend(ValueComplete(h), <<Closer(f.kind)>>)
    OBVIOUS
  <2> HIDE DEF fs
  <2>2. h \in PullRecords /\ h.lex = "none"
    BY <1>2, <1>10 DEF PullRecords, fs
  <2> HIDE DEF h, v10
  <2> QED
    BY <1>9, <2>1, <2>2, ValueCompleteFacts, PendFacts, PullsFacts
<1> HIDE DEF io, bad, v1, v2, v3, v4, v5, v6, v7, v8, v9, v10
<1> QED
  BY <1>1, <1>4, <1>7, <1>11, <1>12, <1>13, <1>14, <1>15, <1>16, <1>17, <1>18, <1>19
     DEF PullPhases

LEMMA PullStepFacts ==
  ASSUME NEW p \in Pulls
  PROVE  PullStep(p) \in Pulls
<1>1. p \in PullRecords /\ p.lex \in {"none", "string", "number", "literal"}
  BY DEF Pulls, PullRecords
<1>2. CASE p.lex = "string"
  BY <1>2, StepStringFacts DEF PullStep
<1>3. CASE p.lex = "number"
  BY <1>3, StepNumberFacts DEF PullStep
<1>4. CASE p.lex = "literal"
  BY <1>4, StepLiteralFacts DEF PullStep
<1>5. CASE p.lex = "none" /\ p.frames = <<>> /\ p.rootFinished
  <2>1. PullStep(p) = StepEnd(p)
    BY <1>5 DEF PullStep
  <2> DEFINE h == SkipBlank(p)
             e == [h EXCEPT !.finished = TRUE]
  <2>2. h \in PullRecords /\ h.lex = "none"
    BY <1>1, <1>5, PeekFacts
  <2>3. StepEnd(p) \in {e, PullFail(p, "io"), PullFail(p, "invalid")}
    BY DEF StepEnd
  <2> HIDE DEF h
  <2>4. e \in PullRecords /\ e.lex = "none"
    BY <2>2 DEF PullRecords
  <2> HIDE DEF e
  <2> QED
    BY <2>1, <2>3, <2>4, PullFailFacts, PullsFacts
<1>6. CASE p.lex = "none" /\ p.frames = <<>> /\ ~p.rootFinished
  <2> DEFINE e == [p EXCEPT !.rootFinished = TRUE]
  <2>1. PullStep(p) = IF p.rootStarted THEN e ELSE StartPullValue(p, 0)
    BY <1>6 DEF PullStep
  <2>2. e \in PullRecords /\ e.lex = "none"
    BY <1>1, <1>6 DEF PullRecords
  <2> HIDE DEF e
  <2>3. e \in Pulls /\ StartPullValue(p, 0) \in Pulls
    BY <1>1, <1>6, <2>2, StartPullValueFacts, PullsFacts
  <2> QED
    BY <2>1, <2>3
<1>7. CASE p.lex = "none" /\ p.frames # <<>>
  <2>1. PullStep(p) = StepFrame(p)
    BY <1>7 DEF PullStep
  <2> QED
    BY <1>7, <2>1, StepFrameFacts
<1> QED
  BY <1>1, <1>2, <1>3, <1>4, <1>5, <1>6, <1>7

LEMMA PullInitFacts ==
  ASSUME NEW text \in Text, NEW failAt \in Nat, NEW pretty \in BOOLEAN, NEW depth \in Nat
  PROVE  PullInit(text, failAt, pretty, depth) \in Pulls
<1> DEFINE e == <<>>
<1>1. e \in Text /\ e \in Seq(PullFrames)
  BY DEF Text
<1>2. PullInit(text, failAt, pretty, depth) =
        [in |-> text, failAt |-> failAt, taken |-> 0, frames |-> e, pending |-> e,
         pretty |-> pretty, baseDepth |-> depth, rootStarted |-> FALSE,
         rootFinished |-> FALSE, finished |-> FALSE, lex |-> "none", isKey |-> FALSE,
         escape |-> FALSE, uni |-> e, uniLeft |-> 0, uniLow |-> "no", err |-> "ok"]
  BY DEF PullInit
<1> HIDE DEF e
<1>3. 0 \in 0..4
  OBVIOUS
<1> QED
  BY <1>1, <1>2, <1>3 DEF Pulls, PullRecords

LEMMA PullInitNullFacts == PullInitNull \in Pulls
<1> DEFINE h == PullInit(<<>>, 2, FALSE, 0)
           n == Literals.null
<1>1. h \in Pulls /\ h.lex = "none"
  BY PullInitFacts, TextFacts DEF PullInit
<1>2. n \in Text
  BY NullText
<1>3. PullInitNull = [h EXCEPT !.pending = n, !.rootStarted = TRUE, !.rootFinished = TRUE]
  BY DEF PullInitNull
<1> HIDE DEF h, n
<1> QED
  BY <1>1, <1>2, <1>3 DEF Pulls, PullRecords

-----------------------------------------------------------------------------
(***************************************************************************)
(* The generator keeps its type.                                           *)
(***************************************************************************)

LEMMA ValueFacts ==
  ASSUME NEW v \in Values \cup KeyValues
  PROVE  /\ v \in Values => IsValue(v)
         /\ v.kind \in {"string", "scalar", "text"} => v.data \in Text
         /\ v.kind = "base64" => v.bytes \in Octets
         /\ v.kind # "string" => v \in Values
<1>1. CASE v \in KeyValues
  <2>1. v.kind = "string" /\ v.data \in Text
    BY <1>1 DEF KeyValues
  <2> QED
    BY <2>1, GeneratorAssumption
<1>2. CASE v \in Values
  <2>1. IsValue(v)
    BY <1>2, GeneratorAssumption
  <2>2. Seq(STRING) \subseteq Text
    BY TextFacts
  <2> QED
    BY <1>2, <2>1, <2>2 DEF IsValue, Octets
<1> QED
  BY <1>1, <1>2

LEMMA FrameFacts ==
  ASSUME NEW v \in Values \cup KeyValues, v.kind \in FrameKinds, NEW depth \in Nat
  PROVE  Frame(v, depth) \in GenFrames
<1> DEFINE e == <<>>
           r == CASE v.kind \in {"string", "text"} -> v.data
                  [] v.kind = "base64"             -> v.bytes
                  [] OTHER                         -> <<>>
           f == [val |-> v, kind |-> v.kind, depth |-> depth, phase |-> "open", index |-> 1,
                 emitted |-> 0, carry |-> e, rest |-> r]
<1>1. e \in Text /\ e \in Octets
  BY DEF Text, Octets
<1>2. /\ v.kind \in {"string", "text"} => r \in Text
      /\ v.kind = "base64" => r \in Octets
      /\ r \in Text \cup Octets
  BY <1>1, ValueFacts
<1>3. Frame(v, depth) = f
  BY DEF Frame
<1> HIDE DEF e, r
<1>4. f \in FrameRecords
  BY <1>1, <1>2 DEF FrameRecords, FramePhases
<1>5. FrameHolds(f)
  BY <1>2 DEF FrameHolds, FramePhases
<1> QED
  BY <1>3, <1>4, <1>5 DEF GenFrames

LEMMA GenPendFacts ==
  ASSUME NEW g \in Gens, NEW b \in Text
  PROVE  GenPend(g, b) \in Gens
<1>1. /\ GenPend(g, b) \in GenRecords /\ GenPend(g, b).out = g.out
      /\ GenPend(g, b).cap = g.cap /\ GenPend(g, b).chunk = g.chunk
      /\ GenPend(g, b).frames = g.frames /\ GenPend(g, b).ioOwner = g.ioOwner
      /\ GenPend(g, b).io = g.io
  BY DEF Gens, GenRecords, GenPend
<1> QED
  BY <1>1 DEF Gens, GenHolds

LEMMA TopFacts ==
  ASSUME NEW g \in Gens, g.frames # <<>>
  PROVE  /\ g.frames \in Seq(GenFrames) /\ Len(g.frames) \in Nat \ {0}
         /\ GenTop(g) = g.frames[Len(g.frames)] /\ GenTop(g) \in GenFrames
<1>1. g.frames \in Seq(GenFrames)
  BY DEF Gens, GenRecords
<1> QED
  BY <1>1 DEF GenTop, Last

LEMMA SetTopFacts ==
  ASSUME NEW g \in Gens, g.frames # <<>>, NEW f \in GenFrames, f.kind = GenTop(g).kind
  PROVE  /\ SetTop(g, f) \in Gens /\ GenTop(SetTop(g, f)) = f
         /\ Len(SetTop(g, f).frames) = Len(g.frames) /\ SetTop(g, f).frames # <<>>
         /\ SetTop(g, f).ioOwner = g.ioOwner /\ SetTop(g, f).io = g.io
<1> DEFINE n == Len(g.frames)
           fs == [g.frames EXCEPT ![n] = f]
           h == SetTop(g, f)
<1>1. g.frames \in Seq(GenFrames) /\ n \in Nat \ {0} /\ GenTop(g) = g.frames[n]
  BY TopFacts
<1>2. /\ fs \in Seq(GenFrames) /\ Len(fs) = n
      /\ \A j \in 1..n : fs[j] = IF j = n THEN f ELSE g.frames[j]
  BY <1>1, SeqExcept
<1>3. h = [g EXCEPT !.frames = fs]
  BY DEF SetTop
<1> HIDE DEF fs, n, h
<1>4. /\ h \in GenRecords /\ h.out = g.out /\ h.cap = g.cap /\ h.chunk = g.chunk
      /\ h.frames = fs /\ h.ioOwner = g.ioOwner /\ h.io = g.io
  BY <1>2, <1>3 DEF Gens, GenRecords
<1>5. \A j \in 1..n : fs[j].kind = g.frames[j].kind
  BY <1>1, <1>2
<1>6. OwnerHolds(g.frames, g.ioOwner, g.io) /\ g.ioOwner \in Nat
  BY DEF Gens, GenHolds, GenRecords
<1>7. OwnerHolds(fs, g.ioOwner, g.io)
  BY <1>1, <1>2, <1>5, <1>6 DEF OwnerHolds, n
<1>8. h \in Gens
  BY <1>4, <1>7 DEF Gens, GenHolds
<1>9. fs # <<>> /\ n \in 1..n
  BY <1>1, <1>2
<1>10. GenTop(h) = f
  BY <1>2, <1>4, <1>9 DEF GenTop, Last
<1> QED
  BY <1>2, <1>4, <1>8, <1>9, <1>10 DEF h, n

LEMMA ToPhaseFacts ==
  ASSUME NEW g \in Gens, g.frames # <<>>, NEW phase,
         [GenTop(g) EXCEPT !.phase = phase] \in GenFrames
  PROVE  ToPhase(g, phase) \in Gens /\ ToPhase(g, phase).frames # <<>>
<1> DEFINE f == [GenTop(g) EXCEPT !.phase = phase]
<1>1. f.kind = GenTop(g).kind
  BY TopFacts DEF GenFrames, FrameRecords
<1>2. ToPhase(g, phase) = SetTop(g, f)
  BY TopFacts DEF ToPhase, SetTop
<1> HIDE DEF f
<1> QED
  BY <1>1, <1>2, SetTopFacts DEF f

LEMMA PushValFacts ==
  ASSUME NEW g \in Gens, NEW v \in Values \cup KeyValues, v.kind \in FrameKinds,
         NEW depth \in Nat
  PROVE  PushVal(g, v, depth) \in Gens
<1> DEFINE f == Frame(v, depth)
           fs == Append(g.frames, f)
           h == PushVal(g, v, depth)
<1>1. f \in GenFrames
  BY FrameFacts
<1>2. g.frames \in Seq(GenFrames) /\ g.ioOwner \in Nat
  BY DEF Gens, GenRecords
<1>3. h = [g EXCEPT !.frames = fs]
  BY DEF PushVal
<1> HIDE DEF f
<1>4. /\ fs \in Seq(GenFrames) /\ Len(fs) = Len(g.frames) + 1
      /\ \A j \in 1..Len(g.frames) : fs[j] = g.frames[j]
  BY <1>1, <1>2
<1> HIDE DEF fs, h
<1>5. /\ h \in GenRecords /\ h.out = g.out /\ h.cap = g.cap /\ h.chunk = g.chunk
      /\ h.frames = fs /\ h.ioOwner = g.ioOwner /\ h.io = g.io
  BY <1>3, <1>4 DEF Gens, GenRecords
<1>6. OwnerHolds(g.frames, g.ioOwner, g.io)
  BY DEF Gens, GenHolds
<1>7. OwnerHolds(fs, g.ioOwner, g.io)
  BY <1>2, <1>4, <1>6 DEF OwnerHolds
<1>8. h \in Gens
  BY <1>5, <1>7 DEF Gens, GenHolds
<1> QED
  BY <1>8 DEF h

\* A frame that goes takes what it owned with it: the buffer is no other's.
LEMMA PopFrameFacts ==
  ASSUME NEW g \in Gens, g.frames # <<>>
  PROVE  PopFrame(g) \in Gens
<1> DEFINE e == <<>>
           fs == Front(g.frames)
           h == [g EXCEPT !.frames = fs]
           i == IF h.ioOwner > Len(h.frames)
                THEN [h EXCEPT !.ioOwner = 0, !.io = e, !.ioEof = FALSE] ELSE h
           j == [i EXCEPT !.jsonOwner = 0, !.pull = PullInitNull]
<1>1. PopFrame(g) = IF i.jsonOwner > Len(i.frames) THEN j ELSE i
  BY DEF PopFrame
<1>2. /\ fs \in Seq(GenFrames) /\ Len(fs) = Len(g.frames) - 1
      /\ \A k \in 1..(Len(g.frames) - 1) : fs[k] = g.frames[k]
  BY TopFacts DEF Front
<1> HIDE DEF fs
<1>3. /\ h \in GenRecords /\ h.out = g.out /\ h.cap = g.cap /\ h.chunk = g.chunk
      /\ h.frames = fs /\ h.ioOwner = g.ioOwner /\ h.io = g.io
  BY <1>2 DEF Gens, GenRecords
<1>4. Len(g.out) <= g.cap /\ Len(g.chunk) <= IoCapacity
      /\ OwnerHolds(g.frames, g.ioOwner, g.io)
  BY DEF Gens, GenHolds
<1> HIDE DEF h
<1>5. i \in Gens
  <2>1. CASE h.ioOwner > Len(h.frames)
    <3>1. e \in Text
      BY DEF Text
    <3>2. i = [h EXCEPT !.ioOwner = 0, !.io = e, !.ioEof = FALSE]
      BY <2>1
    <3> HIDE DEF e, i
    <3>3. /\ i \in GenRecords /\ i.out = g.out /\ i.cap = g.cap /\ i.chunk = g.chunk
          /\ i.frames = fs /\ i.ioOwner = 0
      BY <1>3, <3>1, <3>2 DEF GenRecords
    <3>4. Len(fs) \in Nat
      BY <1>2
    <3>5. OwnerHolds(i.frames, i.ioOwner, i.io)
      BY <3>3, <3>4 DEF OwnerHolds
    <3> QED
      BY <1>4, <3>3, <3>5 DEF Gens, GenHolds
  <2>2. CASE ~(h.ioOwner > Len(h.frames))
    <3>1. i = h
      BY <2>2
    <3> HIDE DEF i
    <3>2. g.ioOwner \in Nat /\ Len(fs) \in Nat
      BY <1>2 DEF Gens, GenRecords
    <3>3. OwnerHolds(fs, g.ioOwner, g.io)
      BY <1>2, <1>3, <1>4, <2>2, <3>2 DEF OwnerHolds
    <3> QED
      BY <1>3, <1>4, <3>1, <3>3 DEF Gens, GenHolds
  <2> QED
    BY <2>1, <2>2
<1> HIDE DEF i
<1>6. j \in Gens
  <2>1. /\ j \in GenRecords /\ j.out = i.out /\ j.cap = i.cap /\ j.chunk = i.chunk
        /\ j.frames = i.frames /\ j.ioOwner = i.ioOwner /\ j.io = i.io
    BY <1>5, PullInitNullFacts DEF Gens, GenRecords
  <2> HIDE DEF j
  <2> QED
    BY <1>5, <2>1 DEF Gens, GenHolds
<1> HIDE DEF j
<1> QED
  BY <1>1, <1>5, <1>6

\* A frame goes on to a phase of its kind.
LEMMA PhaseFacts ==
  ASSUME NEW f \in GenFrames, NEW phase \in FramePhases,
         f.kind \in {"string", "text", "base64"} => phase \in {"open", "body", "close"},
         f.kind = "map" =>
           /\ phase # "body"
           /\ phase \in {"comma", "line", "key", "colon", "value"} =>
                f.index <= Len(f.val.items),
         f.kind = "array" =>
           /\ phase \notin {"body", "key", "colon"}
           /\ phase \in {"comma", "line", "value"} => f.index <= Len(f.val.items)
  PROVE  [f EXCEPT !.phase = phase] \in GenFrames
<1> DEFINE h == [f EXCEPT !.phase = phase]
<1>1. /\ h \in FrameRecords /\ h.val = f.val /\ h.kind = f.kind /\ h.phase = phase
      /\ h.index = f.index /\ h.rest = f.rest
  BY DEF GenFrames, FrameRecords
<1>2. FrameHolds(f)
  BY DEF GenFrames
<1> HIDE DEF h
<1>3. FrameHolds(h)
  BY <1>1, <1>2 DEF FrameHolds
<1> QED
  BY <1>1, <1>3 DEF GenFrames, h

LEMMA RestFacts ==
  ASSUME NEW f \in GenFrames, NEW rest,
         f.kind \in {"string", "text"} => rest \in Text,
         f.kind \notin {"string", "text"} => rest \in Octets
  PROVE  [f EXCEPT !.rest = rest] \in GenFrames /\ [f EXCEPT !.rest = rest].kind = f.kind
<1> DEFINE h == [f EXCEPT !.rest = rest]
<1>1. /\ h \in FrameRecords /\ h.val = f.val /\ h.kind = f.kind /\ h.phase = f.phase
      /\ h.index = f.index /\ h.rest = rest
  BY DEF GenFrames, FrameRecords
<1>2. FrameHolds(f)
  BY DEF GenFrames
<1> HIDE DEF h
<1>3. FrameHolds(h)
  BY <1>1, <1>2 DEF FrameHolds
<1> QED
  BY <1>1, <1>3 DEF GenFrames, h

LEMMA PhasesOfText ==
  ASSUME NEW g \in Gens, g.frames # <<>>, GenTop(g).kind \in {"string", "text", "base64"},
         NEW phase \in {"open", "body", "close"}
  PROVE  ToPhase(g, phase) \in Gens
<1>1. GenTop(g) \in GenFrames
  BY TopFacts
<1>2. phase \in FramePhases
  BY DEF FramePhases
<1>3. [GenTop(g) EXCEPT !.phase = phase] \in GenFrames
  BY <1>1, <1>2, PhaseFacts
<1> QED
  BY <1>3, ToPhaseFacts

LEMMA StepGenStringFacts ==
  ASSUME NEW g \in Gens, g.frames # <<>>, GenTop(g).kind = "string"
  PROVE  StepGenString(g) \in Gens
<1> DEFINE f == GenTop(g)
           n == PlainRun(f.rest)
           v1 == GenPend(ToPhase(g, "body"), <<Quote>>)
           v2 == GenPend(PopFrame(g), <<Quote>>)
           v3 == GenPend(SetTop(g, [f EXCEPT !.rest = Cut(@, n)]), SubSeq(f.rest, 1, n))
           v4 == ToPhase(g, "close")
           v5 == GenPend(SetTop(g, [f EXCEPT !.rest = Tail(@)]), EscapeOf(Head(f.rest)))
<1>1. StepGenString(g) =
        CASE f.phase = "open" -> v1
          [] f.phase = "close" -> v2
          [] f.phase = "body" /\ n > 0 -> v3
          [] f.phase = "body" /\ f.rest = <<>> -> v4
          [] OTHER -> v5
  BY Zenon DEF StepGenString
<1>2. f \in GenFrames
  BY TopFacts
<1>3. f.rest \in Text /\ f.phase \in {"open", "body", "close"}
  BY <1>2 DEF GenFrames, FrameHolds
<1>4. <<Quote>> \in Text
  BY TextFacts
<1>5. n \in Nat /\ n <= Len(f.rest)
  BY <1>3, PlainRunFactsGen
<1> HIDE DEF n
<1>6. v1 \in Gens /\ v2 \in Gens /\ v4 \in Gens
  BY <1>4, PhasesOfText, PopFrameFacts, GenPendFacts
<1>7. v3 \in Gens
  <2> DEFINE r == Cut(f.rest, n)
             b == SubSeq(f.rest, 1, n)
             k == [f EXCEPT !.rest = r]
  <2>1. r \in Text /\ b \in Text
    BY <1>3, <1>5, CutFacts DEF Text
  <2>2. v3 = GenPend(SetTop(g, k), b)
    OBVIOUS
  <2> HIDE DEF r, b, f
  <2>3. k \in GenFrames /\ k.kind = f.kind
    BY <1>2, <2>1, RestFacts DEF f
  <2> HIDE DEF k
  <2>4. SetTop(g, k) \in Gens
    BY <2>3, SetTopFacts DEF f
  <2> QED
    BY <2>1, <2>2, <2>4, GenPendFacts
<1>8. f.rest # <<>> => v5 \in Gens
  <2>1. SUFFICES ASSUME f.rest # <<>> PROVE v5 \in Gens
    OBVIOUS
  <2> DEFINE r == Tail(f.rest)
             c == Head(f.rest)
             k == [f EXCEPT !.rest = r]
  <2>2. r \in Text /\ c \in Chars
    BY <1>3, <2>1 DEF Text
  <2>3. v5 = GenPend(SetTop(g, k), EscapeOf(c))
    OBVIOUS
  <2> HIDE DEF r, c, f
  <2>4. k \in GenFrames /\ k.kind = f.kind
    BY <1>2, <2>2, RestFacts DEF f
  <2> HIDE DEF k
  <2>5. SetTop(g, k) \in Gens
    BY <2>4, SetTopFacts DEF f
  <2> QED
    BY <2>2, <2>3, <2>5, EscapeFacts, GenPendFacts
<1> HIDE DEF v1, v2, v3, v4, v5
<1> QED
  BY <1>1, <1>3, <1>6, <1>7, <1>8

LEMMA PrepareOwnerFacts ==
  ASSUME NEW g \in Gens, g.frames # <<>>
  PROVE  /\ PrepareOwner(g) \in Gens /\ PrepareOwner(g).frames = g.frames
         /\ GenTop(PrepareOwner(g)) = GenTop(g)
         /\ PrepareOwner(g).io \in IF GenTop(g).kind = "base64" THEN Octets ELSE Text
         /\ PrepareOwner(g).ioOwner = Len(g.frames)
<1> DEFINE e == <<>>
           n == Len(g.frames)
           h == PrepareOwner(g)
<1>1. n \in Nat \ {0} /\ GenTop(g) = g.frames[n]
  BY TopFacts
<1>2. CASE g.ioOwner = n
  <2>1. h = g
    BY <1>2 DEF PrepareOwner
  <2>2. OwnerHolds(g.frames, g.ioOwner, g.io)
    BY DEF Gens, GenHolds
  <2>3. g.io \in IF g.frames[n].kind = "base64" THEN Octets ELSE Text
    BY <1>1, <1>2, <2>2 DEF OwnerHolds
  <2> QED
    BY <1>1, <1>2, <2>1, <2>3
<1>3. CASE g.ioOwner # n
  <2>1. h = [g EXCEPT !.ioOwner = n, !.io = e, !.ioEof = FALSE]
    BY <1>3 DEF PrepareOwner
  <2>2. e \in Text /\ e \in Octets
    BY DEF Text, Octets
  <2> HIDE DEF e, h, n
  <2>3. /\ h \in GenRecords /\ h.out = g.out /\ h.cap = g.cap /\ h.chunk = g.chunk
        /\ h.frames = g.frames /\ h.ioOwner = n /\ h.io = e
    BY <1>1, <2>1, <2>2 DEF Gens, GenRecords
  <2>4. OwnerHolds(g.frames, n, e)
    BY <1>1, <2>2 DEF OwnerHolds, n
  <2>5. h \in Gens
    BY <2>3, <2>4 DEF Gens, GenHolds
  <2>6. GenTop(h) = GenTop(g)
    BY <2>3 DEF GenTop
  <2> QED
    BY <2>2, <2>3, <2>5, <2>6 DEF h, n
<1> QED
  BY <1>2, <1>3

\* Bytes taken from the buffer, or put into it.
LEMMA IoFacts ==
  ASSUME NEW g \in Gens, g.frames # <<>>, g.ioOwner = Len(g.frames),
         NEW io, NEW end \in BOOLEAN,
         io \in IF GenTop(g).kind = "base64" THEN Octets ELSE Text
  PROVE  /\ [g EXCEPT !.io = io, !.ioEof = end] \in Gens
         /\ [g EXCEPT !.io = io] \in Gens
         /\ [g EXCEPT !.io = io, !.ioEof = end].frames = g.frames
         /\ [g EXCEPT !.io = io, !.ioEof = end].io = io
<1> DEFINE h == [g EXCEPT !.io = io, !.ioEof = end]
           i == [g EXCEPT !.io = io]
           n == Len(g.frames)
<1>1. n \in Nat \ {0} /\ GenTop(g) = g.frames[n]
  BY TopFacts
<1>2. io \in Text \cup Octets
  OBVIOUS
<1>3. /\ h \in GenRecords /\ h.out = g.out /\ h.cap = g.cap /\ h.chunk = g.chunk
      /\ h.frames = g.frames /\ h.ioOwner = g.ioOwner /\ h.io = io
  BY <1>2 DEF Gens, GenRecords
<1>4. /\ i \in GenRecords /\ i.out = g.out /\ i.cap = g.cap /\ i.chunk = g.chunk
      /\ i.frames = g.frames /\ i.ioOwner = g.ioOwner /\ i.io = io
  BY <1>2 DEF Gens, GenRecords
<1>5. OwnerHolds(g.frames, g.ioOwner, io)
  BY <1>1 DEF OwnerHolds
<1> HIDE DEF h, i
<1>6. h \in Gens /\ i \in Gens
  BY <1>3, <1>4, <1>5 DEF Gens, GenHolds
<1> QED
  BY <1>3, <1>4, <1>6 DEF h, i

LEMMA ReadResultsFacts ==
  ASSUME NEW source \in Sources, NEW S, NEW rest \in Seq(S),
         NEW r \in ReadResults(source, rest)
  PROVE  r.n \in Nat /\ r.n <= Len(rest) /\ r.eof \in BOOLEAN
<1> DEFINE n == SmallerOf(IoCapacity, Len(rest))
<1>1. IoCapacity \in Nat /\ Len(rest) \in Nat
  BY GeneratorAssumption
<1>2. n \in Nat /\ n <= Len(rest)
  BY <1>1, SmallerFacts
<1>3. ReadResults(source, rest) =
        CASE source = "fd"      -> (IF rest = <<>> THEN {[n |-> 0, eof |-> TRUE]}
                                    ELSE [n : 1..n, eof : {FALSE}])
          [] source = "file"    -> {[n |-> n, eof |-> n < IoCapacity]}
          [] source = "spooled" -> {[n |-> n, eof |-> n = Len(rest)]}
          [] source = "fail"    -> {}
  BY Zenon DEF ReadResults
<1> HIDE DEF n
<1>4. CASE source = "fd"
  <2>1. CASE rest = <<>>
    <3>1. r = [n |-> 0, eof |-> TRUE]
      BY <1>3, <1>4, <2>1
    <3> QED
      BY <1>1, <3>1
  <2>2. CASE rest # <<>>
    <3>1. r \in [n : 1..n, eof : {FALSE}]
      BY <1>3, <1>4, <2>2
    <3>2. r.n \in 1..n /\ r.eof = FALSE
      BY <3>1
    <3>3. \A k \in 1..n : k \in Nat /\ k <= Len(rest)
      BY <1>1, <1>2
    <3> QED
      BY <3>2, <3>3
  <2> QED
    BY <2>1, <2>2
<1>5. CASE source = "file"
  <2>1. r = [n |-> n, eof |-> n < IoCapacity]
    BY <1>3, <1>5
  <2>2. (n < IoCapacity) \in BOOLEAN
    OBVIOUS
  <2> QED
    BY <1>2, <2>1, <2>2
<1>6. CASE source = "spooled"
  <2>1. r = [n |-> n, eof |-> n = Len(rest)]
    BY <1>3, <1>6
  <2>2. (n = Len(rest)) \in BOOLEAN
    OBVIOUS
  <2> QED
    BY <1>2, <2>1, <2>2
<1>7. CASE source = "fail"
  BY <1>3, <1>7
<1> QED
  BY <1>4, <1>5, <1>6, <1>7 DEF Sources

LEMMA GenFailFacts ==
  ASSUME NEW g \in Gens, NEW status \in {"io", "invalid", "overflow"}
  PROVE  /\ GenFail(g, status) \in Gens /\ GenFail(g, status).frames = g.frames
         /\ GenFail(g, status).ioOwner = g.ioOwner /\ GenFail(g, status).io = g.io
<1> DEFINE h == GenFail(g, status)
<1>1. /\ h \in GenRecords /\ h.out = g.out /\ h.cap = g.cap /\ h.chunk = g.chunk
      /\ h.frames = g.frames /\ h.ioOwner = g.ioOwner /\ h.io = g.io
  BY DEF Gens, GenRecords, GenFail
<1> HIDE DEF h
<1>2. h \in Gens
  BY <1>1 DEF Gens, GenHolds
<1> QED
  BY <1>1, <1>2 DEF h

\* The generator is ready to give out the bytes of the buffer.
Serves(g, kind) ==
  /\ g \in Gens /\ g.frames # <<>> /\ GenTop(g).kind = kind
  /\ g.ioOwner = Len(g.frames) /\ g.io \in IF kind = "base64" THEN Octets ELSE Text

LEMMA RefillsFacts ==
  ASSUME NEW kind \in {"text", "base64"}, NEW g, Serves(g, kind), NEW r \in Refills(g)
  PROVE  Serves(r, kind)
<1> DEFINE f == GenTop(g)
           S == IF kind = "base64" THEN 0..255 ELSE Chars
<1>1. g \in Gens /\ g.frames # <<>> /\ f.kind = kind /\ g.ioOwner = Len(g.frames)
      /\ g.io \in Seq(S)
  BY DEF Serves, Text, Octets
<1>2. f \in GenFrames
  BY <1>1, TopFacts
<1>3. f.val \in Values \cup KeyValues /\ f.val.kind = kind
  BY <1>1, <1>2 DEF GenFrames, FrameRecords, FrameHolds
<1>4. f.val.source \in Sources
  <2>1. IsValue(f.val)
    BY <1>3, ValueFacts
  <2> QED
    BY <1>3, <2>1 DEF IsValue
<1>5. f.rest \in Seq(S)
  BY <1>1, <1>2 DEF GenFrames, FrameHolds, Text, Octets
<1>6. CASE ReadResults(f.val.source, f.rest) = {}
  <2>1. r = GenFail(g, "io")
    BY <1>6 DEF Refills
  <2>2. r \in Gens /\ r.frames = g.frames /\ r.ioOwner = g.ioOwner /\ r.io = g.io
    BY <1>1, <2>1, GenFailFacts
  <2> QED
    BY <1>1, <2>2 DEF Serves, GenTop, Text, Octets
<1>7. CASE ReadResults(f.val.source, f.rest) # {}
  <2>1. PICK x \in ReadResults(f.val.source, f.rest) :
          r = [SetTop(g, [f EXCEPT !.rest = Cut(@, x.n)])
                 EXCEPT !.io = SubSeq(f.rest, 1, x.n), !.ioEof = x.eof]
    BY <1>7 DEF Refills
  <2>2. x.n \in Nat /\ x.n <= Len(f.rest) /\ x.eof \in BOOLEAN
    BY <1>4, <1>5, ReadResultsFacts
  <2> DEFINE left == Cut(f.rest, x.n)
             io == SubSeq(f.rest, 1, x.n)
             k == [f EXCEPT !.rest = left]
             h == SetTop(g, k)
             end == x.eof
  <2>3. left \in Seq(S) /\ io \in Seq(S)
    BY <1>5, <2>2, CutFacts
  <2>4. r = [h EXCEPT !.io = io, !.ioEof = end]
    BY <2>1
  <2> HIDE DEF left, io, f
  <2>5. k \in GenFrames /\ k.kind = f.kind
    BY <1>1, <1>2, <2>3, RestFacts DEF Text, Octets
  <2> HIDE DEF k
  <2>6. /\ h \in Gens /\ GenTop(h) = k /\ Len(h.frames) = Len(g.frames) /\ h.frames # <<>>
        /\ h.ioOwner = g.ioOwner
    BY <1>1, <2>5, SetTopFacts DEF f
  <2> HIDE DEF h, end
  <2>7. io \in IF GenTop(h).kind = "base64" THEN Octets ELSE Text
    BY <1>1, <2>3, <2>5, <2>6 DEF Text, Octets
  <2>8. r \in Gens /\ r.frames = h.frames /\ r.io = io
    <3>1. h.ioOwner = Len(h.frames) /\ end \in BOOLEAN
      BY <1>1, <2>2, <2>6 DEF end
    <3> QED
      BY <2>4, <2>6, <2>7, <3>1, IoFacts
  <2>9. r.ioOwner = h.ioOwner
    BY <2>4, <2>6 DEF Gens, GenRecords
  <2>10. GenTop(r) = GenTop(h)
    BY <2>8 DEF GenTop
  <2> QED
    BY <1>1, <2>3, <2>5, <2>6, <2>8, <2>9, <2>10 DEF Serves, Text, Octets
<1> QED
  BY <1>6, <1>7

LEMMA EmitTextFacts ==
  ASSUME NEW g, Serves(g, "text")
  PROVE  EmitText(g) \in Gens
<1> DEFINE n == PlainRun(g.io)
           v1 == GenPend([g EXCEPT !.io = Cut(@, n)], SubSeq(g.io, 1, n))
           v2 == GenPend([g EXCEPT !.io = Tail(@)], EscapeOf(Head(g.io)))
           v3 == ToPhase(g, "close")
<1>1. EmitText(g) = CASE n > 0 -> v1
                      [] n = 0 /\ g.io # <<>> -> v2
                      [] g.io = <<>> /\ g.ioEof -> v3
                      [] OTHER -> g
  BY Zenon DEF EmitText
<1>2. /\ g \in Gens /\ g.frames # <<>> /\ GenTop(g).kind = "text"
      /\ g.ioOwner = Len(g.frames) /\ g.io \in Text
  BY DEF Serves
<1>3. n \in Nat /\ n <= Len(g.io)
  BY <1>2, PlainRunFactsGen
<1> HIDE DEF n
<1>4. v1 \in Gens
  <2> DEFINE left == Cut(g.io, n)
             b == SubSeq(g.io, 1, n)
  <2>1. left \in Text /\ b \in Text
    BY <1>2, <1>3, CutFacts DEF Text
  <2> HIDE DEF left
  <2>2. [g EXCEPT !.io = left] \in Gens
    BY <1>2, <2>1, IoFacts
  <2> HIDE DEF b
  <2>3. GenPend([g EXCEPT !.io = left], b) \in Gens
    BY <2>1, <2>2, GenPendFacts
  <2> QED
    BY <2>3 DEF left, b
<1>5. g.io # <<>> => v2 \in Gens
  <2>0. SUFFICES ASSUME g.io # <<>> PROVE v2 \in Gens
    OBVIOUS
  <2> DEFINE left == Tail(g.io)
             b == EscapeOf(Head(g.io))
  <2>1. left \in Text /\ Head(g.io) \in Chars
    BY <1>2, <2>0 DEF Text
  <2>2. b \in Text
    BY <2>1, EscapeFacts
  <2> HIDE DEF left, b
  <2>3. [g EXCEPT !.io = left] \in Gens
    BY <1>2, <2>1, IoFacts
  <2>4. GenPend([g EXCEPT !.io = left], b) \in Gens
    BY <2>2, <2>3, GenPendFacts
  <2> QED
    BY <2>4 DEF left, b
<1>6. v3 \in Gens
  BY <1>2, PhasesOfText
<1> HIDE DEF v1, v2, v3
<1> QED
  BY <1>1, <1>2, <1>4, <1>5, <1>6

LEMMA StepTextFacts ==
  ASSUME NEW g \in Gens, g.frames # <<>>, GenTop(g).kind = "text", NEW r \in StepText(g)
  PROVE  r \in Gens
<1> DEFINE h == PrepareOwner(g)
           f == GenTop(h)
<1>1. StepText(g) =
        CASE f.phase = "open"  -> {GenPend(ToPhase(h, "body"), <<Quote>>)}
          [] f.phase = "close" -> {GenPend(PopFrame(h), <<Quote>>)}
          [] f.phase = "body" /\ (h.io # <<>> \/ h.ioEof) -> {EmitText(h)}
          [] OTHER -> {IF x.err = "ok" THEN EmitText(x) ELSE x : x \in Refills(h)}
  BY Zenon DEF StepText
<1>2. h \in Gens /\ h.frames # <<>> /\ f.kind = "text" /\ Serves(h, "text")
  BY PrepareOwnerFacts DEF Serves
<1> HIDE DEF h, f
<1>3. <<Quote>> \in Text
  BY TextFacts
<1>4. GenPend(ToPhase(h, "body"), <<Quote>>) \in Gens
  BY <1>2, <1>3, PhasesOfText, GenPendFacts DEF f
<1>5. GenPend(PopFrame(h), <<Quote>>) \in Gens
  BY <1>2, <1>3, PopFrameFacts, GenPendFacts
<1>6. EmitText(h) \in Gens
  BY <1>2, EmitTextFacts
<1>7. \A x \in Refills(h) : x \in Gens /\ EmitText(x) \in Gens
  BY <1>2, RefillsFacts, EmitTextFacts DEF Serves
<1> QED
  BY <1>1, <1>4, <1>5, <1>6, <1>7

\* Bytes carried to the next group of three.
LEMMA CarryFacts ==
  ASSUME NEW f \in GenFrames, NEW carry \in Octets
  PROVE  [f EXCEPT !.carry = carry] \in GenFrames /\ [f EXCEPT !.carry = carry].kind = f.kind
<1> DEFINE h == [f EXCEPT !.carry = carry]
<1>1. /\ h \in FrameRecords /\ h.val = f.val /\ h.kind = f.kind /\ h.phase = f.phase
      /\ h.index = f.index /\ h.rest = f.rest
  BY DEF GenFrames, FrameRecords
<1>2. FrameHolds(f)
  BY DEF GenFrames
<1> HIDE DEF h
<1>3. FrameHolds(h)
  BY <1>1, <1>2 DEF FrameHolds
<1> QED
  BY <1>1, <1>3 DEF GenFrames, h

LEMMA EmitQuadFacts ==
  ASSUME NEW g \in Gens, g.frames # <<>>
  PROVE  EmitQuad(g) \in Gens
<1> DEFINE f == GenTop(g)
           e == <<>>
           k == [f EXCEPT !.carry = e]
<1>1. f \in GenFrames /\ f.carry \in Octets /\ e \in Octets
  <2>1. f \in GenFrames
    BY TopFacts
  <2>2. f.carry \in Octets
    BY <2>1 DEF GenFrames, FrameRecords
  <2>3. e \in Octets
    BY DEF Octets
  <2> QED
    BY <2>1, <2>2, <2>3
<1>2. EmitQuad(g) = GenPend(SetTop(g, k), Quad(f.carry))
  BY TopFacts DEF EmitQuad, SetTop
<1> HIDE DEF e, f
<1>3. k \in GenFrames /\ k.kind = f.kind
  BY <1>1, CarryFacts
<1> HIDE DEF k
<1>4. SetTop(g, k) \in Gens
  BY <1>3, SetTopFacts DEF f
<1> QED
  BY <1>1, <1>2, <1>4, QuadFacts, GenPendFacts

LEMMA StepBase64Facts ==
  ASSUME NEW g \in Gens, g.frames # <<>>, GenTop(g).kind = "base64", NEW r \in StepBase64(g)
  PROVE  r \in Gens
<1> DEFINE h == PrepareOwner(g)
           f == GenTop(h)
           moved == [SetTop(h, [f EXCEPT !.carry = Append(@, Head(h.io))]) EXCEPT !.io = Tail(@)]
           v == IF f.carry = <<>> THEN ToPhase(h, "close") ELSE EmitQuad(h)
<1>1. StepBase64(g) =
        CASE f.phase = "open"  -> {GenPend(ToPhase(h, "body"), <<Quote>>)}
          [] f.phase = "close" -> {GenPend(PopFrame(h), <<Quote>>)}
          [] f.phase = "body" /\ Len(f.carry) = 3 -> {EmitQuad(h)}
          [] f.phase = "body" /\ Len(f.carry) < 3 /\ h.io # <<>> -> {moved}
          [] f.phase = "body" /\ Len(f.carry) < 3 /\ h.io = <<>> /\ h.ioEof -> {v}
          [] OTHER -> Refills(h)
  BY Zenon DEF StepBase64
<1>2. /\ h \in Gens /\ h.frames # <<>> /\ f.kind = "base64" /\ Serves(h, "base64")
      /\ h.ioOwner = Len(h.frames) /\ h.io \in Octets
  BY PrepareOwnerFacts DEF Serves
<1> HIDE DEF h
<1>3. <<Quote>> \in Text
  BY TextFacts
<1>4. GenPend(ToPhase(h, "body"), <<Quote>>) \in Gens
  BY <1>2, <1>3, PhasesOfText, GenPendFacts
<1>5. GenPend(PopFrame(h), <<Quote>>) \in Gens
  BY <1>2, <1>3, PopFrameFacts, GenPendFacts
<1>6. EmitQuad(h) \in Gens
  BY <1>2, EmitQuadFacts
<1>7. \A x \in Refills(h) : x \in Gens
  BY <1>2, RefillsFacts DEF Serves
<1>8. v \in Gens
  BY <1>2, <1>6, PhasesOfText
<1>9. h.io # <<>> => moved \in Gens
  <2>1. SUFFICES ASSUME h.io # <<>> PROVE moved \in Gens
    OBVIOUS
  <2> DEFINE c == Append(f.carry, Head(h.io))
             left == Tail(h.io)
             k == [f EXCEPT !.carry = c]
             i == SetTop(h, k)
  <2>2. f \in GenFrames /\ f.carry \in Octets
    BY <1>2, TopFacts DEF GenFrames, FrameRecords
  <2>3. c \in Octets /\ left \in Octets
    <3>1. Head(h.io) \in 0..255 /\ left \in Octets
      BY <1>2, <2>1, HeadTailProperties DEF Octets
    <3> QED
      BY <2>2, <3>1, AppendProperties DEF Octets
  <2> HIDE DEF c, f
  <2>4. k \in GenFrames /\ k.kind = f.kind
    BY <2>2, <2>3, CarryFacts
  <2> HIDE DEF k
  <2>5. /\ i \in Gens /\ GenTop(i) = k /\ Len(i.frames) = Len(h.frames) /\ i.frames # <<>>
        /\ i.ioOwner = h.ioOwner /\ i.io = h.io
    BY <1>2, <2>4, SetTopFacts DEF f
  <2>6. moved = [i EXCEPT !.io = Tail(i.io)]
    BY DEF k, c
  <2>7. moved = [i EXCEPT !.io = left]
    BY <2>5, <2>6
  <2> HIDE DEF i, left, moved
  <2>8. i.ioOwner = Len(i.frames) /\ left \in IF GenTop(i).kind = "base64" THEN Octets ELSE Text
    BY <1>2, <2>3, <2>4, <2>5
  <2> QED
    BY <2>5, <2>7, <2>8, IoFacts
<1> HIDE DEF moved, v, f
<1> QED
  BY <1>1, <1>4, <1>5, <1>6, <1>7, <1>8, <1>9

LEMMA PushValueFacts ==
  ASSUME NEW g \in Gens, NEW v \in Values, NEW depth \in Nat
  PROVE  PushValue(g, v, depth) \in Gens
<1>1. IsValue(v) /\ (v.kind = "scalar" => v.data \in Text)
  BY ValueFacts
<1>2. Literals.null \in Text
  BY NullText
<1>3. CASE v.kind = "null"
  BY <1>2, <1>3, GenPendFacts DEF PushValue
<1>4. CASE v.kind = "scalar"
  BY <1>1, <1>4, GenPendFacts DEF PushValue
<1>5. CASE v.kind \in FrameKinds
  <2>1. PushValue(g, v, depth) = PushVal(g, v, depth)
    BY <1>5 DEF PushValue, FrameKinds
  <2> QED
    BY <1>5, <2>1, PushValFacts
<1> QED
  BY <1>1, <1>3, <1>4, <1>5 DEF IsValue, FrameKinds

LEMMA ContainerPhases ==
  ASSUME NEW g \in Gens, g.frames # <<>>, NEW phase \in FramePhases,
         GenTop(g).kind \in {"map", "array"},
         GenTop(g).kind = "map" =>
           /\ phase # "body"
           /\ phase \in {"comma", "line", "key", "colon", "value"} =>
                GenTop(g).index <= Len(GenTop(g).val.items),
         GenTop(g).kind = "array" =>
           /\ phase \notin {"body", "key", "colon"}
           /\ phase \in {"comma", "line", "value"} =>
                GenTop(g).index <= Len(GenTop(g).val.items)
  PROVE  ToPhase(g, phase) \in Gens /\ ToPhase(g, phase).frames # <<>>
<1>1. GenTop(g) \in GenFrames
  BY TopFacts
<1>2. [GenTop(g) EXCEPT !.phase = phase] \in GenFrames
  BY <1>1, PhaseFacts
<1> QED
  BY <1>2, ToPhaseFacts

\* The next member or item.
LEMMA NextFacts ==
  ASSUME NEW f \in GenFrames, f.kind \in {"map", "array"}, NEW n \in Nat,
         NEW index \in Nat \ {0}
  PROVE  /\ [f EXCEPT !.index = index, !.emitted = n, !.phase = "next"] \in GenFrames
         /\ [f EXCEPT !.index = index, !.emitted = n, !.phase = "next"].kind = f.kind
<1> DEFINE h == [f EXCEPT !.index = index, !.emitted = n, !.phase = "next"]
<1>1. /\ h \in FrameRecords /\ h.val = f.val /\ h.kind = f.kind /\ h.phase = "next"
      /\ h.index = index /\ h.rest = f.rest
  BY DEF GenFrames, FrameRecords, FramePhases
<1>2. FrameHolds(f)
  BY DEF GenFrames
<1> HIDE DEF h
<1>3. FrameHolds(h)
  BY <1>1, <1>2 DEF FrameHolds, FramePhases
<1> QED
  BY <1>1, <1>3 DEF GenFrames, h

LEMMA StepMapFacts ==
  ASSUME NEW g \in Gens, g.frames # <<>>, GenTop(g).kind = "map"
  PROVE  StepMap(g) \in Gens
<1> DEFINE f == GenTop(g)
           ms == f.val.items
           m == ms[f.index]
           v1 == GenPend(ToPhase(g, "next"), <<"{">>)
           v2 == ToPhase(g, IF g.pretty /\ f.emitted > 0 THEN "endLine" ELSE "close")
           v3 == SetTop(g, [f EXCEPT !.index = @ + 1])
           v4 == ToPhase(g, IF f.emitted > 0 THEN "comma" ELSE IF g.pretty THEN "line" ELSE "key")
           v5 == GenPend(ToPhase(g, IF g.pretty THEN "line" ELSE "key"), <<",">>)
           v6 == GenPend(ToPhase(g, "key"), NewLine(f.depth + 1))
           v7 == PushVal(ToPhase(g, "colon"), [kind |-> "string", data |-> m.key], f.depth + 1)
           v8 == GenPend(ToPhase(g, "value"), IF g.pretty THEN <<":", " ">> ELSE <<":">>)
           v9 == PushValue(ToPhase(g, "done"), m.val, f.depth + 1)
           v10 == SetTop(g, [f EXCEPT !.index = @ + 1, !.emitted = @ + 1, !.phase = "next"])
           v11 == GenPend(ToPhase(g, "close"), NewLine(f.depth))
           v12 == GenPend(PopFrame(g), <<"}">>)
<1>1. StepMap(g) =
        CASE f.phase = "open" -> v1
          [] f.phase = "next" /\ f.index > Len(ms) -> v2
          [] f.phase = "next" /\ f.index <= Len(ms) /\ m.omit -> v3
          [] f.phase = "next" /\ f.index <= Len(ms) /\ ~m.omit -> v4
          [] f.phase = "comma" -> v5
          [] f.phase = "line" -> v6
          [] f.phase = "key" -> v7
          [] f.phase = "colon" -> v8
          [] f.phase = "value" -> v9
          [] f.phase = "done" -> v10
          [] f.phase = "endLine" -> v11
          [] f.phase = "close" -> v12
  BY Zenon DEF StepMap
<1>2. f \in GenFrames
  BY TopFacts
<1>3. /\ f.val \in Values \cup KeyValues /\ f.val.kind = "map" /\ f.depth \in Nat
      /\ f.index \in Nat \ {0} /\ f.emitted \in Nat /\ f.phase \in FramePhases \ {"body"}
      /\ f.phase \in {"comma", "line", "key", "colon", "value"} => f.index <= Len(ms)
  BY <1>2 DEF GenFrames, FrameRecords, FrameHolds
<1>4. ms \in Seq([key : Seq(STRING), omit : BOOLEAN, val : Values])
  <2>1. IsValue(f.val)
    BY <1>3, ValueFacts
  <2> QED
    BY <1>3, <2>1 DEF IsValue
<1>5. Len(ms) \in Nat /\ (f.index <= Len(ms) => m.key \in Text /\ m.val \in Values)
  <2>0. Len(ms) \in Nat
    BY <1>4, LenProperties
  <2>4. f.index <= Len(ms) => f.index \in 1..Len(ms)
    BY <1>3, <2>0
  <2>1. f.index <= Len(ms) => m \in [key : Seq(STRING), omit : BOOLEAN, val : Values]
    <3> HIDE DEF ms
    <3> QED
      BY <1>4, <2>4, ElementOfSeq
  <2>2. f.index <= Len(ms) => m.key \in Seq(STRING) /\ m.val \in Values
    BY <2>1
  <2>3. Seq(STRING) \subseteq Text
    BY TextFacts
  <2> QED
    BY <2>0, <2>2, <2>3
<1>6. f.depth + 1 \in Nat /\ f.index + 1 \in Nat \ {0} /\ f.emitted + 1 \in Nat
  BY <1>3
<1>7. \A phase \in {"next", "done", "endLine", "close"} :
        ToPhase(g, phase) \in Gens /\ ToPhase(g, phase).frames # <<>>
  BY ContainerPhases DEF FramePhases
<1>8. f.index <= Len(ms) =>
        \A phase \in {"comma", "line", "key", "colon", "value"} :
          ToPhase(g, phase) \in Gens /\ ToPhase(g, phase).frames # <<>>
  BY ContainerPhases DEF FramePhases
<1> HIDE DEF f, ms, m
<1>9. v1 \in Gens /\ v12 \in Gens
  <2>1. <<"{">> \in Text /\ <<"}">> \in Text
    BY TextFacts
  <2> QED
    BY <1>7, <2>1, PopFrameFacts, GenPendFacts
<1>10. v2 \in Gens
  BY <1>7
<1>11. f.phase = "next" => v3 \in Gens
  <2>1. SUFFICES ASSUME f.phase = "next" PROVE v3 \in Gens
    OBVIOUS
  <2> DEFINE i == f.index + 1
             k == [f EXCEPT !.index = i]
  <2>2. v3 = SetTop(g, k)
    OBVIOUS
  <2> DEFINE n == f.emitted
             p == [f EXCEPT !.index = i, !.emitted = n, !.phase = "next"]
  <2>3. k = p
    BY <1>2, <2>1 DEF GenFrames, FrameRecords
  <2> HIDE DEF i, n
  <2>4. p \in GenFrames /\ p.kind = f.kind
    BY <1>2, <1>3, <1>6, NextFacts DEF f, i, n
  <2> HIDE DEF k, p
  <2> QED
    BY <2>2, <2>3, <2>4, SetTopFacts DEF f
<1>12. f.index <= Len(ms) => v4 \in Gens
  BY <1>8
<1>13. f.index <= Len(ms) => v5 \in Gens
  <2>1. <<",">> \in Text
    BY TextFacts
  <2> QED
    BY <1>8, <2>1, GenPendFacts
<1>14. /\ f.index <= Len(ms) => v6 \in Gens
       /\ v11 \in Gens
  BY <1>3, <1>6, <1>7, <1>8, NewLineFacts, GenPendFacts
<1>15. f.index <= Len(ms) => v7 \in Gens
  <2> DEFINE k == [kind |-> "string", data |-> m.key]
  <2>1. f.index <= Len(ms) => k \in KeyValues /\ k.kind \in FrameKinds
    BY <1>5 DEF KeyValues, FrameKinds
  <2> HIDE DEF k
  <2>2. f.index <= Len(ms) => PushVal(ToPhase(g, "colon"), k, f.depth + 1) \in Gens
    BY <1>6, <1>8, <2>1, PushValFacts
  <2> QED
    BY <2>2 DEF k
<1>16. f.index <= Len(ms) => v8 \in Gens
  <2> DEFINE b == IF g.pretty THEN <<":", " ">> ELSE <<":">>
  <2>1. b \in Text
    BY TextFacts
  <2> HIDE DEF b
  <2>2. f.index <= Len(ms) => GenPend(ToPhase(g, "value"), b) \in Gens
    BY <1>8, <2>1, GenPendFacts
  <2> QED
    BY <2>2 DEF b
<1>17. f.index <= Len(ms) => v9 \in Gens
  BY <1>5, <1>6, <1>7, PushValueFacts
<1>18. v10 \in Gens
  <2> DEFINE i == f.index + 1
             n == f.emitted + 1
             k == [f EXCEPT !.index = i, !.emitted = n, !.phase = "next"]
  <2>1. v10 = SetTop(g, k)
    BY <1>2 DEF GenFrames, FrameRecords
  <2> HIDE DEF i, n
  <2>2. k \in GenFrames /\ k.kind = f.kind
    BY <1>2, <1>6, NextFacts DEF f, i, n
  <2> HIDE DEF k
  <2> QED
    BY <2>1, <2>2, SetTopFacts DEF f
<1> HIDE DEF v1, v2, v3, v4, v5, v6, v7, v8, v9, v10, v11, v12
<1> QED
  BY <1>1, <1>3, <1>5, <1>9, <1>10, <1>11, <1>12, <1>13, <1>14, <1>15, <1>16, <1>17, <1>18
     DEF FramePhases

LEMMA StepArrayFacts ==
  ASSUME NEW g \in Gens, g.frames # <<>>, GenTop(g).kind = "array"
  PROVE  StepArray(g) \in Gens
<1> DEFINE f == GenTop(g)
           items == f.val.items
           v1 == GenPend(ToPhase(g, "next"), <<"[">>)
           v2 == ToPhase(g, IF g.pretty /\ items # <<>> THEN "endLine" ELSE "close")
           v3 == ToPhase(g, IF f.index > 1 THEN "comma" ELSE IF g.pretty THEN "line" ELSE "value")
           v4 == GenPend(ToPhase(g, IF g.pretty THEN "line" ELSE "value"), <<",">>)
           v5 == GenPend(ToPhase(g, "value"), NewLine(f.depth + 1))
           v6 == PushValue(ToPhase(g, "done"), items[f.index], f.depth + 1)
           v7 == SetTop(g, [f EXCEPT !.index = @ + 1, !.phase = "next"])
           v8 == GenPend(ToPhase(g, "close"), NewLine(f.depth))
           v9 == GenPend(PopFrame(g), <<"]">>)
<1>1. StepArray(g) =
        CASE f.phase = "open" -> v1
          [] f.phase = "next" /\ f.index > Len(items) -> v2
          [] f.phase = "next" /\ f.index <= Len(items) -> v3
          [] f.phase = "comma" -> v4
          [] f.phase = "line" -> v5
          [] f.phase = "value" -> v6
          [] f.phase = "done" -> v7
          [] f.phase = "endLine" -> v8
          [] f.phase = "close" -> v9
  BY Zenon DEF StepArray
<1>2. f \in GenFrames
  BY TopFacts
<1>3. /\ f.val \in Values \cup KeyValues /\ f.val.kind = "array" /\ f.depth \in Nat
      /\ f.index \in Nat \ {0} /\ f.emitted \in Nat
      /\ f.phase \in FramePhases \ {"body", "key", "colon"}
      /\ f.phase \in {"comma", "line", "value"} => f.index <= Len(items)
  BY <1>2 DEF GenFrames, FrameRecords, FrameHolds
<1>4. items \in Seq(Values)
  <2>1. IsValue(f.val)
    BY <1>3, ValueFacts
  <2> QED
    BY <1>3, <2>1 DEF IsValue
<1>5. Len(items) \in Nat /\ (f.index <= Len(items) => items[f.index] \in Values)
  BY <1>3, <1>4
<1>6. f.depth + 1 \in Nat /\ f.index + 1 \in Nat \ {0}
  BY <1>3
<1>7. \A phase \in {"next", "done", "endLine", "close"} :
        ToPhase(g, phase) \in Gens /\ ToPhase(g, phase).frames # <<>>
  BY ContainerPhases DEF FramePhases
<1>8. f.index <= Len(items) =>
        \A phase \in {"comma", "line", "value"} :
          ToPhase(g, phase) \in Gens /\ ToPhase(g, phase).frames # <<>>
  BY ContainerPhases DEF FramePhases
<1> HIDE DEF f, items
<1>9. v1 \in Gens /\ v9 \in Gens
  <2>1. <<"[">> \in Text /\ <<"]">> \in Text
    BY TextFacts
  <2> QED
    BY <1>7, <2>1, PopFrameFacts, GenPendFacts
<1>10. v2 \in Gens
  BY <1>7
<1>11. f.index <= Len(items) => v3 \in Gens
  BY <1>8
<1>12. f.index <= Len(items) => v4 \in Gens
  <2>1. <<",">> \in Text
    BY TextFacts
  <2> QED
    BY <1>8, <2>1, GenPendFacts
<1>13. /\ f.index <= Len(items) => v5 \in Gens
       /\ v8 \in Gens
  BY <1>3, <1>6, <1>7, <1>8, NewLineFacts, GenPendFacts
<1>14. f.index <= Len(items) => v6 \in Gens
  BY <1>5, <1>6, <1>7, PushValueFacts
<1>15. v7 \in Gens
  <2> DEFINE i == f.index + 1
             n == f.emitted
             k == [f EXCEPT !.index = i, !.emitted = n, !.phase = "next"]
  <2>1. v7 = SetTop(g, k)
    BY <1>2 DEF GenFrames, FrameRecords
  <2> HIDE DEF i, n
  <2>2. k \in GenFrames /\ k.kind = f.kind
    BY <1>2, <1>3, <1>6, NextFacts DEF f, i, n
  <2> HIDE DEF k
  <2> QED
    BY <2>1, <2>2, SetTopFacts DEF f
<1> HIDE DEF v1, v2, v3, v4, v5, v6, v7, v8, v9
<1> QED
  BY <1>1, <1>3, <1>5, <1>9, <1>10, <1>11, <1>12, <1>13, <1>14, <1>15 DEF FramePhases

LEMMA PrepareJsonFacts ==
  ASSUME NEW g \in Gens, g.frames # <<>>, GenTop(g).kind = "json"
  PROVE  PrepareJson(g) \in Gens /\ PrepareJson(g).frames = g.frames
<1> DEFINE f == GenTop(g)
           n == Len(g.frames)
           e == <<>>
           p == IF f.val.null THEN PullInitNull
                ELSE PullInit(f.val.data, f.val.failAt, g.pretty, f.depth)
           h == [g EXCEPT !.jsonOwner = n, !.chunk = e, !.pull = p]
<1>1. PrepareJson(g) = IF g.jsonOwner = n THEN g ELSE h
  BY DEF PrepareJson
<1>2. f \in GenFrames /\ n \in Nat
  BY TopFacts
<1>3. f.val \in Values \cup KeyValues /\ f.val.kind = "json" /\ f.depth \in Nat
      /\ g.pretty \in BOOLEAN
  BY <1>2 DEF GenFrames, FrameRecords, FrameHolds, Gens, GenRecords
<1>4. f.val.data \in Text /\ f.val.failAt \in Nat
  <2>1. IsValue(f.val)
    BY <1>3, ValueFacts
  <2>2. Seq(STRING) \subseteq Text
    BY TextFacts
  <2> QED
    BY <1>3, <2>1, <2>2 DEF IsValue
<1>5. p \in Pulls
  BY <1>3, <1>4, PullInitFacts, PullInitNullFacts
<1>6. e \in Text /\ Len(e) <= IoCapacity
  BY GeneratorAssumption DEF Text
<1> HIDE DEF e, p, n, f
<1>7. /\ h \in GenRecords /\ h.out = g.out /\ h.cap = g.cap /\ h.chunk = e
      /\ h.frames = g.frames /\ h.ioOwner = g.ioOwner /\ h.io = g.io
  BY <1>2, <1>5, <1>6 DEF Gens, GenRecords
<1> HIDE DEF h
<1>8. h \in Gens
  BY <1>6, <1>7 DEF Gens, GenHolds
<1> QED
  BY <1>1, <1>7, <1>8

\* A change of the reader and of the bytes it has filled in.
LEMMA PullChanges ==
  ASSUME NEW g \in Gens, NEW pull \in Pulls, NEW chunk \in Text, Len(chunk) <= IoCapacity
  PROVE  /\ [g EXCEPT !.pull = pull, !.chunk = chunk] \in Gens
         /\ [g EXCEPT !.pull = pull, !.chunk = chunk].frames = g.frames
         /\ [g EXCEPT !.pull = pull, !.chunk = chunk].pull = pull
         /\ [g EXCEPT !.pull = pull, !.chunk = chunk].chunk = chunk
<1> DEFINE h == [g EXCEPT !.pull = pull, !.chunk = chunk]
<1>1. /\ h \in GenRecords /\ h.out = g.out /\ h.cap = g.cap /\ h.chunk = chunk
      /\ h.frames = g.frames /\ h.ioOwner = g.ioOwner /\ h.io = g.io /\ h.pull = pull
  BY DEF Gens, GenRecords
<1> HIDE DEF h
<1>2. h \in Gens
  BY <1>1 DEF Gens, GenHolds
<1> QED
  BY <1>1, <1>2 DEF h

LEMMA PullFlushFacts ==
  ASSUME NEW g \in Gens
  PROVE  PullFlush(g) \in Gens /\ PullFlush(g).frames = g.frames
<1> DEFINE n == SmallerOf(Len(g.pull.pending), IoCapacity - Len(g.chunk))
           b == SubSeq(g.pull.pending, 1, n)
           chunk == g.chunk \o b
           left == Cut(g.pull.pending, n)
           p == [g.pull EXCEPT !.pending = left]
<1>1. /\ g.pull \in Pulls /\ g.chunk \in Text /\ Len(g.chunk) <= IoCapacity
      /\ IoCapacity \in Nat
  BY GeneratorAssumption DEF Gens, GenRecords, GenHolds
<1>2. g.pull.pending \in Text
  BY <1>1 DEF Pulls, PullRecords
<1>3. Len(g.pull.pending) \in Nat /\ IoCapacity - Len(g.chunk) \in Nat /\ Len(g.chunk) \in Nat
  BY <1>1, <1>2 DEF Text
<1>4. n \in Nat /\ n <= Len(g.pull.pending) /\ n <= IoCapacity - Len(g.chunk)
  BY <1>3, SmallerFacts
<1> HIDE DEF n
<1>5. b \in Text /\ Len(b) = n /\ left \in Text
  BY <1>2, <1>4, CutFacts DEF Text
<1> HIDE DEF b
<1>6. chunk \in Text /\ Len(chunk) <= IoCapacity
  <2>1. chunk \in Text /\ Len(chunk) = Len(g.chunk) + Len(b)
    <3>1. g.chunk \in Seq(Chars) /\ b \in Seq(Chars)
      BY <1>1, <1>5 DEF Text
    <3> QED
      BY <3>1, ConcatProperties DEF Text
  <2> QED
    BY <1>1, <1>3, <1>4, <1>5, <2>1
<1> HIDE DEF left
<1>7. p \in Pulls
  BY <1>1, <1>5 DEF Pulls, PullRecords
<1>8. PullFlush(g) = [g EXCEPT !.pull = p, !.chunk = chunk]
  <2>1. PullFlush(g) = [g EXCEPT !.chunk = chunk, !.pull.pending = left]
    BY DEF PullFlush, n, b, left
  <2> HIDE DEF chunk
  <2>2. DOMAIN g = DOMAIN [g EXCEPT !.chunk = chunk]
    OBVIOUS
  <2>3. [g EXCEPT !.chunk = chunk].pull = g.pull
    BY DEF Gens, GenRecords
  <2> QED
    BY <2>1, <2>3 DEF Gens, GenRecords
<1> HIDE DEF p, chunk
<1>9. [g EXCEPT !.pull = p, !.chunk = chunk] \in Gens
  BY <1>6, <1>7, PullChanges
<1>10. [g EXCEPT !.pull = p, !.chunk = chunk].frames = g.frames
  BY DEF Gens, GenRecords
<1> QED
  BY <1>8, <1>9, <1>10

LEMMA StepJsonFacts ==
  ASSUME NEW g \in Gens, g.frames # <<>>, GenTop(g).kind = "json"
  PROVE  StepJson(g) \in Gens
<1> DEFINE h == PullFlush(PrepareJson(g))
           p == PullStep(h.pull)
           e == <<>>
           k == [h EXCEPT !.pull = p]
           v1 == GenPend([h EXCEPT !.chunk = <<>>], h.chunk)
           v2 == GenFail(k, p.err)
           v3 == PullDone(k)
<1>1. StepJson(g) =
        CASE h.pull.pending # <<>> \/ Len(h.chunk) = IoCapacity -> v1
          [] h.pull.pending = <<>> /\ Len(h.chunk) < IoCapacity ->
               (CASE p.err # "ok" -> v2
                  [] p.err = "ok" /\ p.finished -> v3
                  [] OTHER -> k)
  BY Zenon DEF StepJson
<1>2. h \in Gens /\ h.frames = g.frames
  BY PrepareJsonFacts, PullFlushFacts
<1> HIDE DEF h
<1>3. /\ h.pull \in Pulls /\ h.chunk \in Text /\ Len(h.chunk) <= IoCapacity
      /\ IoCapacity \in Nat /\ Len(h.chunk) \in Nat
  BY <1>2, GeneratorAssumption DEF Gens, GenRecords, GenHolds, Text
<1>4. p \in Pulls
  BY <1>3, PullStepFacts
<1>5. p.err \in {"ok", "io", "invalid", "overflow"}
  BY <1>4 DEF Pulls, PullRecords
<1>6. e \in Text /\ Len(e) <= IoCapacity
  BY <1>3 DEF Text
<1> HIDE DEF p
<1>7. k \in Gens /\ k.frames = g.frames /\ k.chunk = h.chunk
  <2> DEFINE c == h.chunk
             j == [h EXCEPT !.pull = p, !.chunk = c]
  <2>1. j = k
    BY <1>2 DEF Gens, GenRecords
  <2> HIDE DEF c
  <2>3. c \in Text /\ Len(c) <= IoCapacity
    BY <1>3 DEF c
  <2>2. j \in Gens
    BY <1>2, <1>4, <2>3, PullChanges
  <2>4. j.frames = h.frames /\ j.chunk = c
    BY <1>2 DEF Gens, GenRecords
  <2> QED
    BY <1>2, <2>1, <2>2, <2>4 DEF c
<1>8. v1 \in Gens
  <2> DEFINE x == h.pull
             j == [h EXCEPT !.pull = x, !.chunk = e]
  <2>1. v1 = GenPend(j, h.chunk)
    BY <1>2 DEF Gens, GenRecords
  <2> HIDE DEF x, e
  <2>2. j \in Gens
    BY <1>2, <1>3, <1>6, PullChanges DEF x
  <2> HIDE DEF j
  <2> QED
    BY <1>3, <2>1, <2>2, GenPendFacts
<1> HIDE DEF k
<1>9. p.err # "ok" => v2 \in Gens
  BY <1>5, <1>7, GenFailFacts
<1>10. v3 \in Gens
  <2>1. CASE k.chunk # <<>>
    <3> DEFINE x == k.pull
               j == [k EXCEPT !.pull = x, !.chunk = e]
    <3>1. v3 = GenPend(j, k.chunk)
      BY <1>7, <2>1 DEF PullDone, Gens, GenRecords
    <3>2. x \in Pulls
      BY <1>7 DEF Gens, GenRecords
    <3> HIDE DEF x, e
    <3>3. j \in Gens
      BY <1>6, <1>7, <3>2, PullChanges
    <3> HIDE DEF j
    <3> QED
      BY <1>3, <1>7, <3>1, <3>3, GenPendFacts
  <2>2. CASE k.chunk = <<>>
    <3> DEFINE j == [k EXCEPT !.jsonOwner = 0, !.pull = PullInitNull]
    <3>1. v3 = PopFrame(j)
      BY <2>2 DEF PullDone
    <3>2. /\ j \in GenRecords /\ j.out = k.out /\ j.cap = k.cap /\ j.chunk = k.chunk
          /\ j.frames = k.frames /\ j.ioOwner = k.ioOwner /\ j.io = k.io
      BY <1>7, PullInitNullFacts DEF Gens, GenRecords
    <3> HIDE DEF j
    <3>3. j \in Gens
      BY <1>7, <3>2 DEF Gens, GenHolds
    <3> QED
      BY <1>7, <3>1, <3>2, <3>3, PopFrameFacts
  <2> QED
    BY <2>1, <2>2
<1> HIDE DEF v1, v2, v3
<1>11. Len(h.chunk) = IoCapacity \/ Len(h.chunk) < IoCapacity
  BY <1>3
<1> QED
  BY <1>1, <1>7, <1>8, <1>9, <1>10, <1>11

LEMMA StepTopFacts ==
  ASSUME NEW g \in Gens, g.frames # <<>>, NEW r \in StepTop(g)
  PROVE  r \in Gens
<1>1. GenTop(g).kind \in FrameKinds
  BY TopFacts DEF GenFrames, FrameRecords
<1>2. StepTop(g) = CASE GenTop(g).kind = "map"    -> {StepMap(g)}
                     [] GenTop(g).kind = "string" -> {StepGenString(g)}
                     [] GenTop(g).kind = "array"  -> {StepArray(g)}
                     [] GenTop(g).kind = "text"   -> StepText(g)
                     [] GenTop(g).kind = "base64" -> StepBase64(g)
                     [] GenTop(g).kind = "json"   -> {StepJson(g)}
  BY Zenon DEF StepTop
<1>3. CASE GenTop(g).kind = "map"
  BY <1>2, <1>3, StepMapFacts
<1>4. CASE GenTop(g).kind = "string"
  BY <1>2, <1>4, StepGenStringFacts
<1>5. CASE GenTop(g).kind = "array"
  BY <1>2, <1>5, StepArrayFacts
<1>6. CASE GenTop(g).kind = "text"
  <2>1. r \in StepText(g)
    BY <1>2, <1>6
  <2> QED
    BY <1>6, <2>1, StepTextFacts
<1>7. CASE GenTop(g).kind = "base64"
  <2>1. r \in StepBase64(g)
    BY <1>2, <1>7
  <2> QED
    BY <1>7, <2>1, StepBase64Facts
<1>8. CASE GenTop(g).kind = "json"
  BY <1>2, <1>8, StepJsonFacts
<1> QED
  BY <1>1, <1>3, <1>4, <1>5, <1>6, <1>7, <1>8 DEF FrameKinds

\* The output of a generator.
LEMMA OutChanges ==
  ASSUME NEW g \in Gens, NEW out \in Text, NEW cap \in Nat, Len(out) <= cap,
         NEW pending \in Text, NEW reading \in BOOLEAN, NEW finished \in BOOLEAN
  PROVE  LET h == [g EXCEPT !.out = out, !.cap = cap, !.pending = pending] IN
         /\ h \in Gens /\ h.frames = g.frames
         /\ [h EXCEPT !.reading = reading, !.finished = finished] \in Gens
<1> DEFINE h == [g EXCEPT !.out = out, !.cap = cap, !.pending = pending]
           i == [h EXCEPT !.reading = reading, !.finished = finished]
<1>1. /\ h \in GenRecords /\ h.out = out /\ h.cap = cap /\ h.chunk = g.chunk
      /\ h.frames = g.frames /\ h.ioOwner = g.ioOwner /\ h.io = g.io
  BY DEF Gens, GenRecords
<1> HIDE DEF h
<1>2. h \in Gens
  BY <1>1 DEF Gens, GenHolds
<1>3. /\ i \in GenRecords /\ i.out = h.out /\ i.cap = h.cap /\ i.chunk = h.chunk
      /\ i.frames = h.frames /\ i.ioOwner = h.ioOwner /\ i.io = h.io
  BY <1>2 DEF Gens, GenRecords
<1> HIDE DEF i
<1>4. i \in Gens
  BY <1>2, <1>3 DEF Gens, GenHolds
<1> QED
  BY <1>1, <1>2, <1>4 DEF h, i

LEMMA FlagChanges ==
  ASSUME NEW g \in Gens, NEW reading \in BOOLEAN
  PROVE  /\ [g EXCEPT !.reading = reading] \in Gens
         /\ [g EXCEPT !.finished = TRUE, !.reading = reading] \in Gens
<1> DEFINE h == [g EXCEPT !.reading = reading]
           i == [g EXCEPT !.finished = TRUE, !.reading = reading]
<1>1. /\ h \in GenRecords /\ h.out = g.out /\ h.cap = g.cap /\ h.chunk = g.chunk
      /\ h.frames = g.frames /\ h.ioOwner = g.ioOwner /\ h.io = g.io
  BY DEF Gens, GenRecords
<1>2. /\ i \in GenRecords /\ i.out = g.out /\ i.cap = g.cap /\ i.chunk = g.chunk
      /\ i.frames = g.frames /\ i.ioOwner = g.ioOwner /\ i.io = g.io
  BY DEF Gens, GenRecords
<1> HIDE DEF h, i
<1>3. h \in Gens /\ i \in Gens
  BY <1>1, <1>2 DEF Gens, GenHolds
<1> QED
  BY <1>3 DEF h, i

LEMMA FlushPendingFacts ==
  ASSUME NEW g \in Gens
  PROVE  FlushPending(g) \in Gens /\ FlushPending(g).frames = g.frames
<1> DEFINE n == SmallerOf(Len(g.pending), g.cap - Len(g.out))
           b == SubSeq(g.pending, 1, n)
           out == g.out \o b
           left == Cut(g.pending, n)
           cap == g.cap
           h == [g EXCEPT !.out = out, !.cap = cap, !.pending = left]
<1>1. /\ g.pending \in Text /\ g.out \in Text /\ Len(g.out) <= g.cap /\ g.cap \in Nat
  BY DEF Gens, GenRecords, GenHolds
<1>2. Len(g.pending) \in Nat /\ g.cap - Len(g.out) \in Nat /\ Len(g.out) \in Nat
  BY <1>1 DEF Text
<1>3. n \in Nat /\ n <= Len(g.pending) /\ n <= g.cap - Len(g.out)
  BY <1>2, SmallerFacts
<1>4. FlushPending(g) = h
  <2>1. FlushPending(g) = [g EXCEPT !.out = out, !.pending = left]
    BY DEF FlushPending
  <2> HIDE DEF out, left
  <2> QED
    BY <2>1 DEF Gens, GenRecords
<1> HIDE DEF n
<1>5. b \in Text /\ Len(b) = n /\ left \in Text
  BY <1>1, <1>3, CutFacts DEF Text
<1> HIDE DEF b, left
<1>6. out \in Text /\ Len(out) <= g.cap
  <2>1. out \in Text /\ Len(out) = Len(g.out) + Len(b)
    <3>1. g.out \in Seq(Chars) /\ b \in Seq(Chars)
      BY <1>1, <1>5 DEF Text
    <3> QED
      BY <3>1, ConcatProperties DEF Text
  <2> QED
    BY <1>1, <1>2, <1>3, <1>5, <2>1
<1>8. cap \in Nat /\ Len(out) <= cap
  BY <1>1, <1>6
<1> HIDE DEF out, cap
<1>7. h \in Gens
  <2>1. TRUE \in BOOLEAN
    OBVIOUS
  <2> QED
    BY <1>5, <1>6, <1>8, <2>1, OutChanges
<1>9. h.frames = g.frames
  BY DEF Gens, GenRecords
<1> QED
  BY <1>4, <1>7, <1>9

LEMMA GenTurnFacts ==
  ASSUME NEW g \in Gens, NEW r \in GenTurn(g)
  PROVE  r \in Gens
<1> DEFINE f == FlushPending(g)
           v1 == {[g EXCEPT !.reading = FALSE]}
           v2 == {[f EXCEPT !.reading = FALSE]}
           v3 == {[f EXCEPT !.finished = TRUE, !.reading = FALSE]}
<1>1. f \in Gens
  BY FlushPendingFacts
<1>2. GenTurn(g) =
        CASE Len(g.out) >= g.cap -> v1
          [] Len(g.out) < g.cap /\ (f.pending # <<>> \/ Len(f.out) = f.cap) -> v2
          [] Len(g.out) < g.cap /\ f.pending = <<>> /\ Len(f.out) < f.cap ->
               IF f.finished \/ f.frames = <<>> THEN v3 ELSE StepTop(f)
  BY Zenon DEF GenTurn
<1> HIDE DEF f
<1>3. /\ Len(g.out) \in Nat /\ g.cap \in Nat
      /\ Len(f.out) \in Nat /\ f.cap \in Nat /\ Len(f.out) <= f.cap
  BY <1>1 DEF Gens, GenRecords, GenHolds, Text
<1>4. FALSE \in BOOLEAN
  OBVIOUS
<1>5. \A x \in v1 : x \in Gens
  BY <1>4, FlagChanges
<1>6. \A x \in v2 \cup v3 : x \in Gens
  BY <1>1, <1>4, FlagChanges
<1>7. f.frames # <<>> => \A x \in StepTop(f) : x \in Gens
  BY <1>1, StepTopFacts
<1> HIDE DEF v1, v2, v3
<1>8. \/ Len(g.out) >= g.cap
      \/ Len(g.out) < g.cap /\ (f.pending # <<>> \/ Len(f.out) = f.cap)
      \/ Len(g.out) < g.cap /\ f.pending = <<>> /\ Len(f.out) < f.cap
  BY <1>3
<1>9. GenTurn(g) = v1 \/ GenTurn(g) = v2 \/ GenTurn(g) = v3
      \/ (f.frames # <<>> /\ GenTurn(g) = StepTop(f))
  BY <1>2, <1>8
<1> QED
  BY <1>5, <1>6, <1>7, <1>9

LEMMA GenReadFacts ==
  ASSUME NEW g \in Gens, NEW cap \in Nat
  PROVE  GenRead(g, cap) \in Gens
<1> DEFINE e == <<>>
           p == g.pending
           h == [g EXCEPT !.out = e, !.cap = cap, !.reading = TRUE]
<1>1. e \in Text /\ Len(e) <= cap
  BY DEF Text
<1>2. GenRead(g, cap) = h
  BY DEF GenRead
<1> HIDE DEF e
<1>3. /\ h \in GenRecords /\ h.out = e /\ h.cap = cap /\ h.chunk = g.chunk
      /\ h.frames = g.frames /\ h.ioOwner = g.ioOwner /\ h.io = g.io
  BY <1>1 DEF Gens, GenRecords
<1> HIDE DEF h
<1> QED
  BY <1>1, <1>2, <1>3 DEF Gens, GenHolds

LEMMA GenOutSent ==
  ASSUME NEW g \in Gens
  PROVE  [g EXCEPT !.out = <<>>] \in Gens
<1> DEFINE e == <<>>
           h == [g EXCEPT !.out = e]
<1>1. e \in Text /\ Len(e) = 0
  BY DEF Text
<1> HIDE DEF e
<1>2. /\ h \in GenRecords /\ h.out = e /\ h.cap = g.cap /\ h.chunk = g.chunk
      /\ h.frames = g.frames /\ h.ioOwner = g.ioOwner /\ h.io = g.io
  BY <1>1 DEF Gens, GenRecords
<1>3. g.cap \in Nat
  BY DEF Gens, GenRecords
<1> HIDE DEF h
<1>4. h \in Gens
  BY <1>1, <1>2, <1>3 DEF Gens, GenHolds
<1> QED
  BY <1>4 DEF h, e

LEMMA GenInitFacts ==
  ASSUME NEW c \in Children
  PROVE  GenInit(c.val, c.pretty) \in Gens
<1> DEFINE e == <<>>
           f == Frame(c.val, 0)
           s == <<f>>
           p == PullInitNull
           h == [frames |-> s, pending |-> e, out |-> e, cap |-> 0,
                 reading |-> FALSE, io |-> e, ioEof |-> FALSE, ioOwner |-> 0,
                 pull |-> p, chunk |-> e, jsonOwner |-> 0, finished |-> FALSE,
                 pretty |-> c.pretty, err |-> "ok"]
<1>1. c.val \in Values /\ c.val.kind \notin {"null", "scalar"} /\ c.pretty \in BOOLEAN
  BY WriterAssumption
<1>2. IsValue(c.val)
  BY <1>1, ValueFacts
<1>3. c.val.kind \in FrameKinds
  BY <1>1, <1>2 DEF IsValue, FrameKinds
<1>4. f \in GenFrames
  BY <1>1, <1>3, FrameFacts
<1>5. s \in Seq(GenFrames)
  BY <1>4
<1>6. p \in Pulls
  BY PullInitNullFacts
<1>7. e \in Text /\ Len(e) = 0
  BY DEF Text
<1>8. GenInit(c.val, c.pretty) = h
  BY DEF GenInit
<1> HIDE DEF e, f, s, p
<1>9. h \in GenRecords
  BY <1>1, <1>5, <1>6, <1>7 DEF GenRecords
<1>10. /\ h.out = e /\ h.cap = 0 /\ h.chunk = e /\ h.ioOwner = 0 /\ h.frames = s
  OBVIOUS
<1>11. Len(s) \in Nat /\ IoCapacity \in Nat
  BY <1>5, GeneratorAssumption
<1> HIDE DEF h
<1> QED
  BY <1>7, <1>8, <1>9, <1>10, <1>11 DEF Gens, GenHolds, OwnerHolds

-----------------------------------------------------------------------------
(***************************************************************************)
(* The writer in generator mode.                                           *)
(***************************************************************************)

TextOps == {"key", "string", "string_chunk", "number_text", "number_chunk", "scalar"}
EventOps == {"key", "string", "string_chunk", "number_text", "number_end", "scalar"}

\* The calls that a producer can make.
ProducerOps ==
  {"none", "begin_object", "begin_array", "string_begin", "null_source", "end_object",
   "end_array", "string_end", "number_begin", "number_end", "string_reader", "child"}
    \cup TextOps

\* What a call that is made again goes on with: the rest of an event, the rest
\* of a reader and the child of an event that has begun.
Resumable(v) ==
  /\ DOMAIN v = DOMAIN WriterStart
  /\ v.number \in Text
  /\ DOMAIN v.ev = DOMAIN NoEvent /\ v.ev.rest \in Text
  /\ DOMAIN v.reader = DOMAIN NoReader /\ v.reader.left \in Text /\ v.reader.rest \in Text
  /\ v.ev.op = "child" /\ v.ev.phase # 0 => v.child \in Gens

Callable(c) ==
  /\ DOMAIN c = DOMAIN NoCall
  /\ c.op \in ProducerOps
  /\ c.op \in TextOps => c.arg \in Text
  /\ c.op = "child" => c.arg \in Children
  /\ c.op = "string_reader" => c.arg \in Readers

\* A call that was entered is that of the event.
InEvent(v, c) ==
  /\ c.op = "child" /\ c.at # "enter" => v.child \in Gens
  /\ c.op \in EventOps /\ c.at = "text" => v.ev.op = c.op

BufferRecords ==
  [out : Text, cap : Nat, pending : Text, blocked : BOOLEAN, done : BOOLEAN,
   phase : {"idle", "reading", "producing", "failed"}]

\* The buffer of a read, and what did not fit it.
Buffered(s) ==
  /\ s \in BufferRecords
  /\ Len(s.out) <= s.cap
  /\ ~s.blocked => s.pending = <<>>
  /\ s.phase = "idle" => s.out = <<>>

\* What was delivered, what is in the buffer and what waits.
Whole(a, q, p) == a \o q \o p

WriterInv ==
  mode = "generator" =>
    /\ Resumable(w) /\ Callable(call) /\ InEvent(w, call) /\ Buffered(gen)
    /\ got \in Text /\ written \in Text
    /\ Whole(got, gen.out, gen.pending) = written

\* A step of a call: nothing is delivered, the producer does not end, and the
\* text at most grows.
Moves ==
  /\ mode' = mode /\ got' = got /\ eof' = eof
  /\ gen.done' = gen.done /\ gen.phase' \in {gen.phase, "reading"}
  /\ IsPrefix(written, written')

Kept == WriterInv' /\ Moves

(***************************************************************************)
(* The sink of the generator.                                              *)
(***************************************************************************)

LEMMA ConcatText ==
  ASSUME NEW a \in Text, NEW b \in Text
  PROVE  a \o b \in Text /\ Len(a \o b) = Len(a) + Len(b) /\ Len(a) \in Nat
<1>1. a \in Seq(Chars) /\ b \in Seq(Chars)
  BY DEF Text
<1> QED
  BY <1>1, ConcatProperties DEF Text

LEMMA JoinText == \A a, b, c \in Text : (a \o b) \o c = a \o (b \o c)
<1>1. \A x, y, z \in Seq(Chars) : (x \o y) \o z = x \o (y \o z)
  BY ConcatAssociative
<1> QED
  BY <1>1, Zenon DEF Text

LEMMA WholeFacts ==
  ASSUME NEW a \in Text, NEW q \in Text, NEW p \in Text
  PROVE  /\ Whole(a, q, p) \in Text
         /\ Whole(a, <<>>, p) = a \o p /\ Whole(a \o q, <<>>, p) = Whole(a, q, p)
         /\ Whole(a, q, <<>>) \o p = Whole(a, q, p)
<1>1. a \o q \in Text /\ a \o q \o p \in Text
  BY ConcatText
<1>2. a \o <<>> = a /\ (a \o q) \o <<>> = a \o q
  BY <1>1, ConcatEmptySeq DEF Text
<1> QED
  BY <1>1, <1>2, Zenon DEF Whole

\* The front of p is moved to the end of q.
LEMMA MovedFacts ==
  ASSUME NEW q \in Text, NEW p \in Text, NEW n \in Nat, n <= Len(p)
  PROVE  /\ q \o SubSeq(p, 1, n) \in Text /\ Len(q \o SubSeq(p, 1, n)) = Len(q) + n
         /\ Cut(p, n) \in Text /\ Len(Cut(p, n)) = Len(p) - n
         /\ \A a \in Text : Whole(a, q \o SubSeq(p, 1, n), Cut(p, n)) = Whole(a, q, p)
<1> DEFINE f == SubSeq(p, 1, n)
           c == Cut(p, n)
<1>1. f \in Text /\ Len(f) = n /\ c \in Text /\ Len(c) = Len(p) - n /\ f \o c = p
  BY CutFacts DEF Text
<1> HIDE DEF f, c
<1>3. q \o f \in Text /\ Len(q \o f) = Len(q) + n
  BY <1>1, ConcatText
<1>4. ASSUME NEW a \in Text
      PROVE  a \o (q \o f) \o c = a \o q \o p
  <2>1. (a \o q) \o f = a \o (q \o f)
    BY <1>1, JoinText, Zenon
  <2>2. a \o q \in Text
    BY ConcatText
  <2>3. ((a \o q) \o f) \o c = (a \o q) \o (f \o c)
    BY <1>1, <2>2, JoinText, Zenon
  <2> QED
    BY <1>1, <2>1, <2>3
<1> QED
  BY <1>1, <1>3, <1>4, Zenon DEF f, c, Whole

LEMMA GenFlushFacts ==
  ASSUME NEW s, Buffered(s)
  PROVE  /\ GenFlush(s) \in BufferRecords /\ Len(GenFlush(s).out) <= GenFlush(s).cap
         /\ ~s.blocked => GenFlush(s).pending = <<>>
         /\ GenFlush(s).blocked = s.blocked /\ GenFlush(s).phase = s.phase
         /\ GenFlush(s).cap = s.cap /\ GenFlush(s).done = s.done
         /\ \A a \in Text : Whole(a, GenFlush(s).out, GenFlush(s).pending)
                              = Whole(a, s.out, s.pending)
<1> DEFINE n == SmallerOf(Len(s.pending), s.cap - Len(s.out))
           x == s.out
           y == s.pending
           q == x \o SubSeq(y, 1, n)
           p == Cut(y, n)
           f == [s EXCEPT !.out = q, !.pending = p]
<1>1. x \in Text /\ y \in Text /\ s.cap \in Nat /\ Len(x) <= s.cap
  BY DEF Buffered, BufferRecords
<1>2. Len(y) \in Nat /\ s.cap - Len(x) \in Nat /\ Len(x) \in Nat
  BY <1>1 DEF Text
<1>3. n \in Nat /\ n <= Len(y) /\ n <= s.cap - Len(x)
  BY <1>2, SmallerFacts
<1>4. GenFlush(s) = f
  BY DEF GenFlush
<1>9. ~s.blocked => Len(y) = 0
  BY DEF Buffered
<1> HIDE DEF n, x, y
<1>5. q \in Text /\ Len(q) = Len(x) + n /\ p \in Text /\ Len(p) = Len(y) - n
  BY <1>1, <1>3, MovedFacts
<1>10. \A a \in Text : Whole(a, q, p) = Whole(a, x, y)
  BY <1>1, <1>3, MovedFacts
<1> HIDE DEF q, p
<1>6. Len(q) <= s.cap
  BY <1>1, <1>2, <1>3, <1>5
<1>7. ~s.blocked => p = <<>>
  <2>1. ASSUME ~s.blocked PROVE p = <<>>
    <3>1. Len(p) = 0
      BY <1>2, <1>3, <1>5, <1>9, <2>1
    <3> QED
      BY <1>5, <3>1, EmptySeq DEF Text
  <2> QED
    BY <2>1
<1>8. /\ f \in BufferRecords
      /\ f.out = q /\ f.pending = p /\ f.cap = s.cap /\ f.blocked = s.blocked
      /\ f.phase = s.phase /\ f.done = s.done
  BY <1>5 DEF Buffered, BufferRecords
<1> HIDE DEF f
<1> QED
  BY <1>4, <1>6, <1>7, <1>8, <1>10 DEF x, y

\* The bytes are taken: what fits goes to the buffer, the rest waits.
LEMMA GenTakeFacts ==
  ASSUME NEW s \in BufferRecords, Len(s.out) <= s.cap, s.pending = <<>>, s.phase # "idle",
         ~s.blocked, NEW b \in Text
  PROVE  /\ Buffered(GenTake(s, b)) /\ GenTake(s, b).phase = s.phase
         /\ GenTake(s, b).done = s.done
         /\ \A a \in Text : Whole(a, GenTake(s, b).out, GenTake(s, b).pending)
                              = Whole(a, s.out, <<>>) \o b
<1> DEFINE n == SmallerOf(Len(b), s.cap - Len(s.out))
           x == s.out
           q == x \o SubSeq(b, 1, n)
           c == Cut(b, n)
           p == IF n < Len(b) THEN c ELSE s.pending
           k == n < Len(b)
           f == [s EXCEPT !.out = q, !.pending = p, !.blocked = k]
<1>1. x \in Text /\ s.cap \in Nat /\ Len(x) <= s.cap
  BY DEF BufferRecords
<1>2. Len(b) \in Nat /\ s.cap - Len(x) \in Nat /\ Len(x) \in Nat
  BY <1>1 DEF Text
<1>3. n \in Nat /\ n <= Len(b) /\ n <= s.cap - Len(x)
  BY <1>2, SmallerFacts
<1>4. GenTake(s, b) = f
  BY DEF GenTake
<1> HIDE DEF n, x
<1>5. q \in Text /\ Len(q) = Len(x) + n /\ c \in Text /\ Len(c) = Len(b) - n
  BY <1>1, <1>3, MovedFacts
<1>6. \A a \in Text : Whole(a, q, c) = Whole(a, x, b)
  BY <1>1, <1>3, MovedFacts
<1> HIDE DEF q, c
<1>7. Len(q) <= s.cap
  BY <1>1, <1>2, <1>3, <1>5
<1>8. p = c /\ (~k => c = <<>>)
  <2>1. CASE n < Len(b)
    BY <2>1
  <2>2. CASE ~(n < Len(b))
    <3>1. Len(c) = 0
      BY <1>2, <1>3, <1>5, <2>2
    <3> QED
      BY <1>5, <2>2, <3>1, EmptySeq DEF Text
  <2> QED
    BY <2>1, <2>2
<1>9. k \in BOOLEAN
  OBVIOUS
<1> HIDE DEF p, k
<1>10. /\ f \in BufferRecords
       /\ f.out = q /\ f.pending = p /\ f.cap = s.cap /\ f.blocked = k
       /\ f.phase = s.phase /\ f.done = s.done
  BY <1>5, <1>8, <1>9 DEF BufferRecords
<1> HIDE DEF f
<1>11. Buffered(f)
  BY <1>7, <1>8, <1>10 DEF Buffered, BufferRecords
<1>12. ASSUME NEW a \in Text
       PROVE  Whole(a, q, c) = Whole(a, x, <<>>) \o b
  BY <1>1, <1>6, WholeFacts
<1> QED
  BY <1>4, <1>8, <1>10, <1>11, <1>12 DEF x

\* lonejson__writer_generator_sink: the bytes are added to what is on its way,
\* or nothing is taken.
LEMMA GenSinkFacts ==
  ASSUME NEW s, Buffered(s), s.phase # "idle", NEW b \in Text
  PROVE  LET r == GenSink(s, b) IN
         /\ Buffered(r.gen) /\ r.gen.phase = s.phase /\ r.taken \in BOOLEAN
         /\ r.gen.done = s.done
         /\ \A a \in Text :
              Whole(a, r.gen.out, r.gen.pending)
                = IF r.taken THEN Whole(a, s.out, s.pending) \o b
                             ELSE Whole(a, s.out, s.pending)
<1> DEFINE f == GenFlush(s)
           h == [f EXCEPT !.blocked = FALSE]
           full == f.pending # <<>> \/ Len(f.out) >= f.cap
           v1 == [taken |-> TRUE, gen |-> GenTake(s, b)]
           v2 == [taken |-> FALSE, gen |-> f]
           v3 == [taken |-> TRUE, gen |-> GenTake(h, b)]
<1>1. GenSink(s, b) = CASE ~s.blocked -> v1
                        [] s.blocked /\ full -> v2
                        [] OTHER -> v3
  BY Zenon DEF GenSink
<1>2. CASE ~s.blocked
  <2>1. s \in BufferRecords /\ Len(s.out) <= s.cap /\ s.pending = <<>>
    BY <1>2 DEF Buffered
  <2>2. /\ Buffered(GenTake(s, b)) /\ GenTake(s, b).phase = s.phase
        /\ GenTake(s, b).done = s.done
        /\ \A a \in Text : Whole(a, GenTake(s, b).out, GenTake(s, b).pending)
                             = Whole(a, s.out, <<>>) \o b
    BY <1>2, <2>1, GenTakeFacts
  <2>3. GenSink(s, b) = v1
    BY <1>1, <1>2
  <2>4. v1.taken = TRUE /\ v1.gen = GenTake(s, b)
    OBVIOUS
  <2> HIDE DEF v1
  <2> QED
    BY <2>1, <2>2, <2>3, <2>4
<1>3. CASE s.blocked /\ full
  <2>1. GenSink(s, b) = v2
    BY <1>1, <1>3
  <2>2. v2.taken = FALSE /\ v2.gen = f
    OBVIOUS
  <2> HIDE DEF v2, full
  <2>3. Buffered(f) /\ f.phase = s.phase /\ f.done = s.done
    BY <1>3, GenFlushFacts DEF Buffered
  <2>4. \A a \in Text : Whole(a, f.out, f.pending) = Whole(a, s.out, s.pending)
    BY GenFlushFacts
  <2> QED
    BY <2>1, <2>2, <2>3, <2>4
<1>4. CASE s.blocked /\ ~full
  <2>1. GenSink(s, b) = v3
    BY <1>1, <1>4
  <2>2. v3.taken = TRUE /\ v3.gen = GenTake(h, b)
    OBVIOUS
  <2>3. f.pending = <<>>
    BY <1>4
  <2> HIDE DEF v3, full
  <2>4. /\ f \in BufferRecords /\ Len(f.out) <= f.cap /\ f.phase = s.phase
        /\ f.done = s.done
        /\ \A a \in Text : Whole(a, f.out, f.pending) = Whole(a, s.out, s.pending)
    BY GenFlushFacts
  <2> HIDE DEF f
  <2>5. /\ h \in BufferRecords /\ h.out = f.out /\ h.pending = f.pending /\ h.cap = f.cap
        /\ h.phase = f.phase /\ h.blocked = FALSE /\ h.done = f.done
    BY <2>4 DEF BufferRecords
  <2> HIDE DEF h
  <2>6. /\ Buffered(GenTake(h, b)) /\ GenTake(h, b).phase = h.phase
        /\ GenTake(h, b).done = h.done
        /\ \A a \in Text : Whole(a, GenTake(h, b).out, GenTake(h, b).pending)
                             = Whole(a, h.out, <<>>) \o b
    <3>1. Len(h.out) <= h.cap /\ h.pending = <<>> /\ h.phase # "idle" /\ ~h.blocked
      BY <2>3, <2>4, <2>5
    <3> QED
      BY <2>5, <3>1, GenTakeFacts
  <2>7. \A a \in Text : Whole(a, h.out, <<>>) = Whole(a, s.out, s.pending)
    BY <2>3, <2>4, <2>5
  <2> QED
    BY <2>1, <2>2, <2>4, <2>5, <2>6, <2>7
<1> QED
  BY <1>2, <1>3, <1>4

(***************************************************************************)
(* How a call ends or goes on.                                             *)
(***************************************************************************)

LEMMA NoCallHolds ==
  /\ Callable(NoCall) /\ \A v : InEvent(v, NoCall)
  BY DEF Callable, NoCall, InEvent, ProducerOps, TextOps, EventOps

LEMMA AgainHolds ==
  ASSUME Callable(call)
  PROVE  LET c == [NoCall EXCEPT !.op = call.op, !.arg = call.arg] IN
         Callable(c) /\ \A v : InEvent(v, c)
<1> DEFINE c == [NoCall EXCEPT !.op = call.op, !.arg = call.arg]
<1>1. /\ DOMAIN c = DOMAIN NoCall /\ c.op = call.op /\ c.arg = call.arg /\ c.at = "enter"
  BY DEF NoCall
<1> HIDE DEF c
<1>2. Callable(c) /\ \A v : InEvent(v, c)
  BY <1>1 DEF Callable, InEvent
<1> QED
  BY <1>2 DEF c

LEMMA PrefixFacts ==
  ASSUME NEW s \in Text, NEW b \in Text
  PROVE  IsPrefix(s, s) /\ IsPrefix(s, s \o b)
<1> DEFINE t == s \o b
<1>1. t \in Text /\ Len(t) = Len(s) + Len(b) /\ Len(s) \in Nat /\ Len(b) \in Nat
  BY ConcatText
<1>2. \A i \in 1..Len(s) : t[i] = s[i]
  BY DEF Text
<1> HIDE DEF t
<1>3. SubSeq(t, 1, Len(s)) = SubSeq(s, 1, Len(s))
  BY <1>1, <1>2 DEF Text
<1>4. IsPrefix(s, t)
  BY <1>1, <1>3 DEF IsPrefix
<1> QED
  BY <1>1, <1>4 DEF IsPrefix, t

\* A step that leaves the text and the buffer alone.
LEMMA StillMoves ==
  ASSUME WriterInv, mode = "generator", mode' = mode, got' = got, eof' = eof, gen' = gen,
         written' = written
  PROVE  Moves
<1>1. written \in Text
  BY DEF WriterInv
<1>2. IsPrefix(written, written)
  BY <1>1, PrefixFacts
<1> QED
  BY <1>2 DEF Moves

LEMMA ReturnHolds ==
  ASSUME WriterInv, mode = "generator", NEW v, Resumable(v), Return(v)
  PROVE  Kept
<1>1. /\ w' = v /\ call' = NoCall /\ mode' = mode /\ gen' = gen /\ written' = written
      /\ got' = got /\ eof' = eof
  BY DEF Return
<1>2. WriterInv'
  BY <1>1, NoCallHolds DEF WriterInv
<1> QED
  BY <1>1, <1>2, StillMoves DEF Kept

LEMMA ContinueHolds ==
  ASSUME WriterInv, mode = "generator", NEW v, Resumable(v), NEW c, Callable(c), InEvent(v, c),
         Continue(v, c)
  PROVE  Kept
<1>1. /\ w' = v /\ call' = c /\ mode' = mode /\ gen' = gen /\ written' = written
      /\ got' = got /\ eof' = eof
  BY DEF Continue
<1>2. WriterInv'
  BY <1>1 DEF WriterInv
<1> QED
  BY <1>1, <1>2, StillMoves DEF Kept

LEMMA BreakHolds ==
  ASSUME WriterInv, mode = "generator", NEW v, Resumable(v), BreakCall(v)
  PROVE  Kept
<1>1. /\ w' = v /\ call' = NoCall /\ mode' = mode /\ gen' = gen /\ written' = written
      /\ got' = got /\ eof' = eof
  BY DEF BreakCall
<1>2. WriterInv'
  BY <1>1, NoCallHolds DEF WriterInv
<1> QED
  BY <1>1, <1>2, StillMoves DEF Kept

\* A buffer in another phase than idle.
LEMMA PhaseHolds ==
  ASSUME NEW s, Buffered(s), NEW p \in {"reading", "producing", "failed"}
  PROVE  LET f == [s EXCEPT !.phase = p] IN
         /\ Buffered(f) /\ f.out = s.out /\ f.pending = s.pending
         /\ f.done = s.done /\ f.phase = p
<1> DEFINE f == [s EXCEPT !.phase = p]
<1>1. /\ f \in BufferRecords /\ f.out = s.out /\ f.pending = s.pending /\ f.cap = s.cap
      /\ f.phase = p /\ f.blocked = s.blocked /\ f.done = s.done
  BY DEF Buffered, BufferRecords
<1> HIDE DEF f
<1>2. Buffered(f)
  BY <1>1 DEF Buffered
<1> QED
  BY <1>1, <1>2 DEF f

LEMMA TruncateHolds ==
  ASSUME WriterInv, mode = "generator", NEW v, Resumable(v), Truncate(v)
  PROVE  Kept
<1> DEFINE c == [NoCall EXCEPT !.op = call.op, !.arg = call.arg]
           f == [gen EXCEPT !.phase = "reading"]
<1>1. /\ w' = v /\ call' = c /\ mode' = mode /\ gen' = f /\ written' = written
      /\ got' = got /\ eof' = eof
  BY DEF Truncate
<1>2. Callable(c) /\ InEvent(v, c)
  BY AgainHolds DEF WriterInv
<1>3. /\ Buffered(f) /\ f.out = gen.out /\ f.pending = gen.pending /\ f.done = gen.done
      /\ f.phase = "reading"
  BY PhaseHolds DEF WriterInv
<1> HIDE DEF c, f
<1>4. WriterInv'
  BY <1>1, <1>2, <1>3 DEF WriterInv
<1>5. IsPrefix(written, written)
  BY PrefixFacts DEF WriterInv
<1> QED
  BY <1>1, <1>3, <1>4, <1>5 DEF Kept, Moves

LEMMA EmitHolds ==
  ASSUME WriterInv, mode = "generator", gen.phase # "idle", NEW b \in Text,
         NEW v, Resumable(v), NEW u, Resumable(u), NEW c, Callable(c), InEvent(u, c),
         Emit(b, v, u, c)
  PROVE  Kept
<1> DEFINE r == GenSink(gen, b)
           again == [NoCall EXCEPT !.op = call.op, !.arg = call.arg]
           f == [r.gen EXCEPT !.phase = "reading"]
<1>1. CASE b = <<>>
  <2>1. Continue(u, c)
    BY <1>1 DEF Emit
  <2> QED
    BY <2>1, ContinueHolds
<1>2. CASE b # <<>>
  <2>1. \/ /\ r.taken
           /\ gen' = r.gen /\ w' = u /\ call' = c /\ written' = written \o b
           /\ mode' = mode /\ got' = got /\ eof' = eof
        \/ /\ ~r.taken
           /\ gen' = f /\ w' = v /\ call' = again /\ written' = written
           /\ mode' = mode /\ got' = got /\ eof' = eof
    BY <1>2 DEF Emit
  <2>2. Buffered(gen) /\ got \in Text /\ written \in Text /\ Callable(call)
        /\ Whole(got, gen.out, gen.pending) = written
    BY DEF WriterInv
  <2>3. /\ Buffered(r.gen) /\ r.taken \in BOOLEAN
        /\ r.gen.done = gen.done /\ r.gen.phase = gen.phase
        /\ Whole(got, r.gen.out, r.gen.pending) = IF r.taken THEN written \o b ELSE written
    BY <2>2, GenSinkFacts
  <2> HIDE DEF r
  <2>4. CASE r.taken
    <3>1. written \o b \in Text
      BY <2>2, ConcatText
    <3>2. WriterInv'
      BY <2>1, <2>2, <2>3, <2>4, <3>1 DEF WriterInv
    <3>3. IsPrefix(written, written \o b)
      BY <2>2, PrefixFacts
    <3> QED
      BY <2>1, <2>3, <2>4, <3>2, <3>3 DEF Kept, Moves
  <2>5. CASE ~r.taken
    <3>1. Callable(again) /\ InEvent(v, again)
      BY <2>2, AgainHolds
    <3>2. /\ Buffered(f) /\ f.out = r.gen.out /\ f.pending = r.gen.pending
          /\ f.done = r.gen.done /\ f.phase = "reading"
      BY <2>3, PhaseHolds
    <3> HIDE DEF again, f
    <3>3. WriterInv'
      BY <2>1, <2>2, <2>3, <2>5, <3>1, <3>2 DEF WriterInv
    <3>4. IsPrefix(written, written)
      BY <2>2, PrefixFacts
    <3> QED
      BY <2>1, <2>3, <2>5, <3>2, <3>3, <3>4 DEF Kept, Moves
  <2> QED
    BY <2>4, <2>5
<1> QED
  BY <1>1, <1>2

\* The bytes are taken and the call is over.
LEMMA EmitBreaksHolds ==
  ASSUME WriterInv, mode = "generator", gen.phase # "idle", NEW b \in Text,
         NEW v, Resumable(v), EmitBreaks(b, v)
  PROVE  Kept
<1> DEFINE r == GenSink(gen, b)
<1>1. /\ gen' = IF b # <<>> THEN r.gen ELSE gen
      /\ b # <<>> => r.taken
      /\ w' = v /\ call' = NoCall /\ written' = written \o b
      /\ mode' = mode /\ got' = got /\ eof' = eof
  BY DEF EmitBreaks
<1>2. Buffered(gen) /\ got \in Text /\ written \in Text
      /\ Whole(got, gen.out, gen.pending) = written
  BY DEF WriterInv
<1>3. /\ Buffered(r.gen) /\ r.taken \in BOOLEAN
      /\ r.gen.done = gen.done /\ r.gen.phase = gen.phase
      /\ Whole(got, r.gen.out, r.gen.pending) = IF r.taken THEN written \o b ELSE written
  BY <1>2, GenSinkFacts
<1> HIDE DEF r
<1>4. CASE b = <<>>
  <2>1. written \o b = written
    BY <1>2, <1>4, ConcatEmptySeq DEF Text
  <2>2. WriterInv'
    BY <1>1, <1>2, <1>4, <2>1, NoCallHolds DEF WriterInv
  <2> QED
    BY <1>1, <1>4, <2>1, <2>2, StillMoves DEF Kept
<1>5. CASE b # <<>>
  <2>1. written \o b \in Text
    BY <1>2, ConcatText
  <2>2. WriterInv'
    BY <1>1, <1>2, <1>3, <1>5, <2>1, NoCallHolds DEF WriterInv
  <2>3. IsPrefix(written, written \o b)
    BY <1>2, PrefixFacts
  <2> QED
    BY <1>1, <1>3, <1>5, <2>2, <2>3 DEF Kept, Moves
<1> QED
  BY <1>4, <1>5

LEMMA CommaText == \A v : Comma(v) \in Text
  BY TextFacts DEF Comma

LEMMA BeforeHolds ==
  ASSUME WriterInv, mode = "generator", gen.phase # "idle",
         NEW v, Resumable(v), NEW u, Resumable(u), NEW c, Callable(c), InEvent(u, c),
         BeforeValue(v, u, c)
  PROVE  Kept
<1> DEFINE b == IF Inside(v, "array") THEN Comma(v) ELSE <<>>
<1>1. Return(v) \/ Truncate(v) \/ Emit(b, v, u, c)
  BY Zenon DEF BeforeValue
<1>2. b \in Text
  BY CommaText, TextFacts
<1> HIDE DEF b
<1> QED
  BY <1>1, <1>2, ReturnHolds, TruncateHolds, EmitHolds

LEMMA FieldFacts ==
  /\ DOMAIN WriterStart = {"frames", "room", "rootWritten", "finished", "strOpen", "numOpen", "number",
                           "failed", "streamOpen", "ev", "child", "reader", "stream"}
  /\ DOMAIN NoEvent = {"op", "arg", "phase", "rest"}
  /\ DOMAIN NoReader = {"active", "arg", "left", "rest", "eof"}
  /\ DOMAIN NoCall = {"op", "arg", "at", "rest", "started", "emitted"}
  BY DEF WriterStart, NoEvent, NoReader, NoCall

\* A writer that differs in nothing a call goes on with.
Alike(u, v) ==
  /\ DOMAIN u = DOMAIN v
  /\ u.number = v.number /\ u.ev = v.ev /\ u.reader = v.reader /\ u.child = v.child

LEMMA AlikeHolds ==
  ASSUME NEW v, Resumable(v), NEW u, Alike(u, v)
  PROVE  Resumable(u)
  BY DEF Resumable, Alike

LEMMA FlagsAlike ==
  ASSUME NEW v, Resumable(v), NEW x
  PROVE  /\ Alike(v, v)
         /\ Alike([v EXCEPT !.failed = x], v) /\ Alike([v EXCEPT !.strOpen = x], v)
         /\ Alike([v EXCEPT !.finished = x], v) /\ Alike([v EXCEPT !.rootWritten = x], v)
         /\ Alike([v EXCEPT !.frames = x], v)
         /\ \A y : Alike([v EXCEPT !.frames = x, !.room = y], v)
  BY FieldFacts DEF Alike, Resumable

LEMMA PlacedAlike ==
  ASSUME NEW v, Resumable(v)
  PROVE  Alike(Placed(v), v)
<1> DEFINE x == [v.frames EXCEPT ![Len(v.frames)] = [@ EXCEPT !.any = TRUE, !.afterKey = FALSE]]
<1>1. Placed(v) = IF v.frames = <<>> THEN [v EXCEPT !.rootWritten = TRUE]
                                     ELSE [v EXCEPT !.frames = x]
  BY DEF Placed
<1> HIDE DEF x
<1> QED
  BY <1>1, FlagsAlike

LEMMA AtHolds ==
  ASSUME Callable(call), NEW p
  PROVE  /\ Callable(At(p)) /\ At(p).op = call.op /\ At(p).at = p /\ At(p).arg = call.arg
  BY FieldFacts DEF Callable, At

\* A call of the producer finds a read in progress.
LEMMA DoingFacts ==
  ASSUME WriterInv, mode = "generator", NEW ops, NEW p, Doing(ops, p)
  PROVE  /\ gen.phase # "idle" /\ call.op \in ops /\ call.at = p
         /\ Resumable(w) /\ Callable(call) /\ InEvent(w, call)
  BY DEF WriterInv, Doing, Running

LEMMA OpenPlaceHolds ==
  ASSUME WriterInv, mode = "generator", OpenPlace
  PROVE  Kept
<1>1. /\ gen.phase # "idle" /\ call.op \in OpeningOps /\ Resumable(w) /\ Callable(call)
  BY DoingFacts DEF OpenPlace
<1>2. Resumable(Placed(w))
  BY <1>1, PlacedAlike, AlikeHolds
<1>3. Callable(At("open")) /\ At("open").op = call.op
  BY <1>1, AtHolds
<1>4. InEvent(Placed(w), At("open"))
  BY <1>1, <1>3 DEF InEvent, OpeningOps, EventOps
<1>5. BeforeValue(w, Placed(w), At("open"))
  BY DEF OpenPlace
<1> QED
  BY <1>1, <1>2, <1>3, <1>4, <1>5, BeforeHolds

LEMMA OpeningText == \A op \in OpeningOps : Opening[op] \in Text
<1>1. /\ Opening["begin_object"] = <<"{">> /\ Opening["begin_array"] = <<"[">>
      /\ Opening["string_begin"] = <<Quote>> /\ Opening["null_source"] = Literals.null
  BY DEF Opening
<1> QED
  BY <1>1, TextFacts, NullText DEF OpeningOps

LEMMA OpenBreaksHolds ==
  ASSUME WriterInv, mode = "generator", OpenBreaks
  PROVE  Kept
<1>1. /\ gen.phase # "idle" /\ call.op \in {"begin_object", "begin_array"} /\ Resumable(w)
  BY DoingFacts DEF OpenBreaks
<1>2. Opening[call.op] \in Text
  BY <1>1, OpeningText DEF OpeningOps
<1>3. EmitBreaks(Opening[call.op], w)
  BY DEF OpenBreaks
<1> QED
  BY <1>1, <1>2, <1>3, EmitBreaksHolds

LEMMA OpenEmitHolds ==
  ASSUME WriterInv, mode = "generator", OpenEmit
  PROVE  Kept
<1>1. /\ gen.phase # "idle" /\ call.op \in OpeningOps /\ Resumable(w)
  BY DoingFacts DEF OpenEmit
<1>2. Resumable(Opened(w))
  <2> DEFINE x == Append(w.frames, WFrame("object"))
             y == Append(w.frames, WFrame("array"))
             n == CASE ~Full(w) -> w.room [] Full(w) /\ w.room = 0 -> FirstFrames
                    [] OTHER -> 2 * w.room
  <2>1. \/ Opened(w) = [w EXCEPT !.frames = x, !.room = n]
        \/ Opened(w) = [w EXCEPT !.frames = y, !.room = n]
        \/ Opened(w) = [w EXCEPT !.strOpen = TRUE] \/ Opened(w) = w
    <3>1. /\ Pushed(w, "object") = [w EXCEPT !.frames = x, !.room = n]
          /\ Pushed(w, "array") = [w EXCEPT !.frames = y, !.room = n]
      BY DEF Pushed
    <3> QED
      BY <1>1, <3>1 DEF Opened, OpeningOps
  <2> HIDE DEF x, y, n
  <2>2. /\ Alike([w EXCEPT !.frames = x, !.room = n], w)
        /\ Alike([w EXCEPT !.frames = y, !.room = n], w)
    BY <1>1, FlagsAlike
  <2>3. Alike(Opened(w), w)
    BY <1>1, <2>1, <2>2, FlagsAlike
  <2> QED
    BY <1>1, <2>3, AlikeHolds
<1>3. Opening[call.op] \in Text
  BY <1>1, OpeningText
<1>4. Emit(Opening[call.op], w, Opened(w), NoCall)
  BY DEF OpenEmit
<1> QED
  BY <1>1, <1>2, <1>3, <1>4, NoCallHolds, EmitHolds

LEMMA EndContainerHolds ==
  ASSUME WriterInv, mode = "generator", EndContainer
  PROVE  Kept
<1> DEFINE x == Front(w.frames)
           u == [w EXCEPT !.frames = x]
           b == <<Closer(EndKind)>>
<1>1. /\ gen.phase # "idle" /\ Resumable(w)
  BY DoingFacts DEF EndContainer
<1>2. Return(w) \/ Emit(b, w, u, NoCall)
  BY DEF EndContainer
<1>3. b \in Text
  BY TextFacts DEF Closer
<1> HIDE DEF x
<1>4. Resumable(u)
  BY <1>1, FlagsAlike, AlikeHolds
<1> HIDE DEF b, u
<1> QED
  BY <1>1, <1>2, <1>3, <1>4, NoCallHolds, ReturnHolds, EmitHolds

LEMMA StringEndHolds ==
  ASSUME WriterInv, mode = "generator", StringEnd
  PROVE  Kept
<1> DEFINE u == [w EXCEPT !.strOpen = FALSE]
           b == <<Quote>>
<1>1. /\ gen.phase # "idle" /\ Resumable(w)
  BY DoingFacts DEF StringEnd
<1>2. Return(w) \/ Emit(b, w, u, NoCall)
  BY DEF StringEnd
<1>3. b \in Text
  BY TextFacts
<1>4. Resumable(u)
  BY <1>1, FlagsAlike, AlikeHolds
<1> HIDE DEF b, u
<1> QED
  BY <1>1, <1>2, <1>3, <1>4, NoCallHolds, ReturnHolds, EmitHolds

(***************************************************************************)
(* Events.                                                                 *)
(***************************************************************************)

LEMMA EventBegunHolds ==
  ASSUME NEW v, Resumable(v), NEW data \in Text
  PROVE  /\ Resumable(EventBegun(v, data))
         /\ EventBegun(v, data).child = v.child
         /\ v.ev.op # "none" => EventBegun(v, data) = v
         /\ v.ev.op = "none" => /\ EventBegun(v, data).ev.op = call.op
                                /\ EventBegun(v, data).ev.phase = 0
<1> DEFINE e == [op |-> call.op, arg |-> call.arg, phase |-> 0, rest |-> data]
           u == [v EXCEPT !.ev = e]
<1>1. EventBegun(v, data) = IF v.ev.op # "none" THEN v ELSE u
  BY DEF EventBegun
<1>2. DOMAIN e = DOMAIN NoEvent /\ e.op = call.op /\ e.phase = 0 /\ e.rest = data
  BY FieldFacts
<1> HIDE DEF e
<1>3. /\ DOMAIN u = DOMAIN v /\ u.ev = e /\ u.number = v.number /\ u.reader = v.reader
      /\ u.child = v.child
  BY FieldFacts DEF Resumable
<1> HIDE DEF u
<1>4. Resumable(u)
  BY <1>2, <1>3 DEF Resumable
<1> QED
  BY <1>1, <1>2, <1>3, <1>4

\* A call that is not refused goes on with its own event.
LEMMA OwnEvent ==
  ASSUME NEW v, Resumable(v), NEW data \in Text,
         ~EventRefused(v) \/ v.ev.op = call.op
  PROVE  EventBegun(v, data).ev.op = call.op
<1>1. v.ev.op = "none" \/ v.ev.op = call.op
  BY DEF EventRefused
<1> QED
  BY <1>1, EventBegunHolds

LEMMA PhaseKept ==
  ASSUME NEW v, Resumable(v), NEW n, v.ev.op # "child" \/ v.child \in Gens
  PROVE  /\ Resumable(Phase(v, n)) /\ Phase(v, n).ev.op = v.ev.op
         /\ Phase(v, n).child = v.child
<1> DEFINE e == [v.ev EXCEPT !.phase = n]
           u == [v EXCEPT !.ev = e]
<1>1. Phase(v, n) = u
  BY DEF Phase
<1>2. DOMAIN e = DOMAIN NoEvent /\ e.op = v.ev.op /\ e.rest = v.ev.rest
  BY FieldFacts DEF Resumable
<1> HIDE DEF e
<1>3. /\ DOMAIN u = DOMAIN v /\ u.ev = e /\ u.number = v.number /\ u.reader = v.reader
      /\ u.child = v.child
  BY FieldFacts DEF Resumable
<1> HIDE DEF u
<1>4. Resumable(u)
  BY <1>2, <1>3 DEF Resumable
<1> QED
  BY <1>1, <1>2, <1>3, <1>4

LEMMA ClearedHolds ==
  ASSUME NEW v, Resumable(v)
  PROVE  Resumable(Cleared(v))
<1> DEFINE e == NoEvent
           c == NoChild
           u == [v EXCEPT !.ev = e, !.child = c]
<1>1. Cleared(v) = u
  BY DEF Cleared
<1>2. e.op = "none" /\ e.rest \in Text /\ DOMAIN e = DOMAIN NoEvent
  BY TextFacts DEF NoEvent
<1> HIDE DEF e, c
<1>3. /\ DOMAIN u = DOMAIN v /\ u.ev = e /\ u.number = v.number /\ u.reader = v.reader
  BY FieldFacts DEF Resumable
<1> HIDE DEF u
<1> QED
  BY <1>1, <1>2, <1>3 DEF Resumable

LEMMA ChildBreaksHolds ==
  ASSUME WriterInv, mode = "generator", ChildBreaks
  PROVE  Kept
<1> DEFINE v == EventBegun(w, <<>>)
           b == IF Inside(v, "array") THEN Comma(v) ELSE <<>>
<1>1. gen.phase # "idle" /\ Resumable(w)
  BY DoingFacts DEF ChildBreaks
<1>2. EmitBreaks(b, Cleared(Placed(v)))
  BY DEF ChildBreaks
<1>3. Resumable(v)
  BY <1>1, TextFacts, EventBegunHolds
<1>4. b \in Text
  BY CommaText, TextFacts
<1> HIDE DEF v, b
<1>5. Resumable(Cleared(Placed(v)))
  BY <1>3, PlacedAlike, AlikeHolds, ClearedHolds
<1> QED
  BY <1>1, <1>2, <1>4, <1>5, EmitBreaksHolds

LEMMA KeyEnterHolds ==
  ASSUME WriterInv, mode = "generator", KeyEnter
  PROVE  Kept
<1> DEFINE v == EventBegun(w, call.arg)
           u == Phase(v, 1)
           c == At("text")
           b == Comma(v)
<1>1. /\ gen.phase # "idle" /\ call.op = "key" /\ Resumable(w) /\ Callable(call)
  BY DoingFacts DEF KeyEnter
<1>2. call.arg \in Text
  BY <1>1 DEF Callable, TextOps
<1>3. Resumable(v) /\ v.child = w.child
  BY <1>1, <1>2, EventBegunHolds
<1>4. \/ Return(w)
      \/ ~EventRefused(w) /\ Continue(v, c)
      \/ Return(v) \/ Truncate(v)
      \/ ~EventRefused(w) /\ Emit(b, v, u, c)
  BY Zenon DEF KeyEnter
<1>5. ~EventRefused(w) => v.ev.op = call.op
  BY <1>1, <1>2, OwnEvent
<1>6. Callable(c) /\ c.op = call.op /\ c.at = "text"
  BY <1>1, AtHolds
<1>7. b \in Text
  BY CommaText
<1> HIDE DEF v, b, c
<1>8. ~EventRefused(w) => InEvent(v, c)
  BY <1>1, <1>5, <1>6 DEF InEvent
<1>9. ~EventRefused(w) => Resumable(u) /\ u.ev.op = call.op
  BY <1>1, <1>3, <1>5, PhaseKept
<1> HIDE DEF u
<1>10. ~EventRefused(w) => InEvent(u, c)
  BY <1>1, <1>6, <1>9 DEF InEvent
<1>11. CASE Return(w) \/ Return(v) \/ Truncate(v)
  BY <1>1, <1>3, <1>11, ReturnHolds, TruncateHolds
<1>12. CASE ~EventRefused(w) /\ Continue(v, c)
  BY <1>1, <1>3, <1>6, <1>8, <1>12, ContinueHolds
<1>13. CASE ~EventRefused(w) /\ Emit(b, v, u, c)
  BY <1>1, <1>3, <1>6, <1>7, <1>9, <1>10, <1>13, EmitHolds
<1> QED
  BY <1>4, <1>11, <1>12, <1>13

LEMMA ChunkEnterHolds ==
  ASSUME WriterInv, mode = "generator", ChunkEnter
  PROVE  Kept
<1> DEFINE v == EventBegun(w, call.arg)
           c == At("text")
<1>1. /\ gen.phase # "idle" /\ call.op = "string_chunk" /\ Resumable(w) /\ Callable(call)
  BY DoingFacts DEF ChunkEnter
<1>2. call.arg \in Text
  BY <1>1 DEF Callable, TextOps
<1>3. Resumable(v)
  BY <1>1, <1>2, EventBegunHolds
<1>4. Return(w) \/ (~EventRefused(w) /\ Continue(v, c))
  BY Zenon DEF ChunkEnter
<1>5. ~EventRefused(w) => v.ev.op = call.op
  BY <1>1, <1>2, OwnEvent
<1>6. Callable(c) /\ c.op = call.op /\ c.at = "text"
  BY <1>1, AtHolds
<1> HIDE DEF v, c
<1>7. ~EventRefused(w) => InEvent(v, c)
  BY <1>1, <1>5, <1>6 DEF InEvent
<1> QED
  BY <1>1, <1>3, <1>4, <1>6, <1>7, ReturnHolds, ContinueHolds

LEMMA ValueEnterHolds ==
  ASSUME WriterInv, mode = "generator", ValueEnter
  PROVE  Kept
<1> DEFINE child == call.op = "child"
           data == IF child THEN <<>> ELSE call.arg
           v == EventBegun(w, data)
           g == GenInit(call.arg.val, call.arg.pretty)
           t == Placed(v)
           p == Phase(t, 1)
           q == [p EXCEPT !.child = g]
           u == IF child THEN q ELSE p
           resumes == w.ev.op = call.op /\ w.ev.arg = call.arg
           refused == IF call.op = "scalar" /\ resumes THEN FALSE ELSE EventRefused(w)
           c == At(IF child THEN "child" ELSE "text")
<1>1. /\ gen.phase # "idle" /\ call.op \in {"string", "number_text", "scalar", "child"}
      /\ Resumable(w) /\ Callable(call)
  BY DoingFacts DEF ValueEnter
<1>2. data \in Text
  BY <1>1, TextFacts DEF Callable, TextOps
<1>3. \/ Return(w)
      \/ ~refused /\ v.ev.phase > 0 /\ Continue(v, c)
      \/ ~refused /\ BeforeValue(v, u, c)
  BY Zenon DEF ValueEnter
<1>4. Resumable(v) /\ v.child = w.child
  BY <1>1, <1>2, EventBegunHolds
<1>5. ~refused => v.ev.op = call.op
  BY <1>1, <1>2, OwnEvent
<1>6. ~refused /\ v.ev.phase > 0 => v = w
  <2>1. ~(0 > 0)
    OBVIOUS
  <2> HIDE DEF refused, data
  <2> QED
    BY <1>1, <1>2, <2>1, EventBegunHolds
<1>7. Callable(c) /\ c.op = call.op /\ c.at = IF child THEN "child" ELSE "text"
  BY <1>1, AtHolds
<1> HIDE DEF v, c, data, refused
<1>8. /\ Alike(t, v) /\ Resumable(t)
  BY <1>4, PlacedAlike, AlikeHolds
<1> HIDE DEF t
<1>9. CASE child
  <2>1. g \in Gens
    <3>1. call.arg \in Children
      BY <1>1, <1>9 DEF Callable
    <3> QED
      BY <3>1, GenInitFacts
  <2> HIDE DEF g
  <2>2. Resumable(q) /\ q.child = g
    <3> DEFINE e == [t.ev EXCEPT !.phase = 1]
               k == [t EXCEPT !.ev = e, !.child = g]
    <3>1. q = k
      BY DEF Phase
    <3>2. DOMAIN e = DOMAIN NoEvent /\ e.op = t.ev.op /\ e.rest = t.ev.rest
      BY <1>8, FieldFacts DEF Resumable
    <3> HIDE DEF e
    <3>3. /\ DOMAIN k = DOMAIN t /\ k.ev = e /\ k.number = t.number /\ k.reader = t.reader
          /\ k.child = g
      BY <1>8, FieldFacts DEF Resumable
    <3> HIDE DEF k, q
    <3> QED
      BY <1>8, <2>1, <3>1, <3>2, <3>3 DEF Resumable
  <2>3. u = q
    BY <1>9
  <2> HIDE DEF u, q, child
  <2>4. InEvent(u, c)
    BY <1>7, <1>9, <2>1, <2>2, <2>3 DEF InEvent, EventOps, child
  <2>5. ~refused /\ v.ev.phase > 0 => InEvent(v, c)
    <3>1. ASSUME ~refused, v.ev.phase > 0 PROVE InEvent(v, c)
      <4>1. w.ev.op = "child" /\ w.ev.phase # 0
        BY <1>5, <1>6, <1>9, <3>1 DEF child
      <4>2. v.child \in Gens
        BY <1>1, <1>4, <4>1 DEF Resumable
      <4> QED
        BY <1>7, <1>9, <4>2 DEF InEvent, EventOps, child
    <3> QED
      BY <3>1
  <2>6. Resumable(u)
    BY <2>2, <2>3
  <2> QED
    BY <1>1, <1>3, <1>4, <1>7, <2>4, <2>5, <2>6, ReturnHolds, ContinueHolds, BeforeHolds
<1>10. CASE ~child
  <2>1. ~refused => Resumable(p) /\ p.ev.op = call.op
    <3>1. t.ev = v.ev
      BY <1>8 DEF Alike
    <3> QED
      BY <1>5, <1>8, <1>10, <3>1, PhaseKept
  <2>2. u = p
    BY <1>10
  <2> HIDE DEF u, p
  <2>3. ~refused => InEvent(u, c) /\ InEvent(v, c) /\ Resumable(u)
    BY <1>5, <1>7, <1>10, <2>1, <2>2 DEF InEvent
  <2> HIDE DEF child
  <2> QED
    BY <1>1, <1>3, <1>4, <1>7, <2>3, ReturnHolds, ContinueHolds, BeforeHolds
<1> QED
  BY <1>9, <1>10

(***************************************************************************)
(* Numbers in pieces.                                                      *)
(***************************************************************************)

LEMMA NumberBeginHolds ==
  ASSUME WriterInv, mode = "generator", NumberBegin
  PROVE  Kept
<1> DEFINE t == Placed(w)
           e == <<>>
           u == [t EXCEPT !.number = e, !.numOpen = TRUE]
<1>1. /\ gen.phase # "idle" /\ Resumable(w)
  BY DoingFacts DEF NumberBegin
<1>2. BeforeValue(w, u, NoCall)
  BY DEF NumberBegin
<1>3. Resumable(t)
  BY <1>1, PlacedAlike, AlikeHolds
<1>4. e \in Text
  BY TextFacts
<1> HIDE DEF t, e
<1>5. /\ DOMAIN u = DOMAIN t /\ u.number = e /\ u.ev = t.ev /\ u.reader = t.reader
      /\ u.child = t.child
  BY <1>3, FieldFacts DEF Resumable
<1> HIDE DEF u
<1>6. Resumable(u)
  BY <1>3, <1>4, <1>5 DEF Resumable
<1> QED
  BY <1>1, <1>2, <1>6, NoCallHolds, BeforeHolds

LEMMA NumberChunkHolds ==
  ASSUME WriterInv, mode = "generator", NumberChunk
  PROVE  Kept
<1> DEFINE n == w.number \o call.arg
           u == [w EXCEPT !.number = n]
           x == [w EXCEPT !.failed = TRUE]
<1>1. /\ gen.phase # "idle" /\ Resumable(w) /\ Callable(call) /\ call.op = "number_chunk"
  BY DoingFacts DEF NumberChunk
<1>2. Return(w) \/ Return(x) \/ Return(u)
  BY Zenon DEF NumberChunk
<1>3. w.number \in Text /\ call.arg \in Text
  BY <1>1 DEF Resumable, Callable, TextOps
<1>4. n \in Text
  BY <1>3, ConcatText
<1>5. Resumable(x)
  BY <1>1, FlagsAlike, AlikeHolds
<1> HIDE DEF n, x
<1>6. /\ DOMAIN u = DOMAIN w /\ u.number = n /\ u.ev = w.ev /\ u.reader = w.reader
      /\ u.child = w.child
  BY <1>1, FieldFacts DEF Resumable
<1> HIDE DEF u
<1>7. Resumable(u)
  BY <1>1, <1>4, <1>6 DEF Resumable
<1> QED
  BY <1>1, <1>2, <1>5, <1>7, ReturnHolds

LEMMA NumberEndHolds ==
  ASSUME WriterInv, mode = "generator", NumberEnd
  PROVE  Kept
<1> DEFINE e == [op |-> "number_end", arg |-> <<>>, phase |-> 1, rest |-> w.number]
           u == [w EXCEPT !.ev = e]
           begun == IF w.ev.op # "none" THEN w ELSE u
           x == [w EXCEPT !.failed = TRUE]
           c == At("text")
<1>1. /\ gen.phase # "idle" /\ Resumable(w) /\ Callable(call) /\ call.op = "number_end"
  BY DoingFacts DEF NumberEnd
<1>2. \/ Return(w) \/ Return(x)
      \/ w.ev.op \in {"none", "number_end"} /\ Continue(begun, c)
  BY DEF NumberEnd
<1>3. Resumable(x)
  BY <1>1, FlagsAlike, AlikeHolds
<1>4. DOMAIN e = DOMAIN NoEvent /\ e.op = "number_end" /\ e.rest = w.number
  BY FieldFacts
<1>5. Callable(c) /\ c.op = call.op /\ c.at = "text"
  BY <1>1, AtHolds
<1> HIDE DEF e, x, c
<1>6. /\ DOMAIN u = DOMAIN w /\ u.number = w.number /\ u.ev = e /\ u.reader = w.reader
      /\ u.child = w.child
  BY <1>1, FieldFacts DEF Resumable
<1> HIDE DEF u
<1>7. Resumable(u)
  BY <1>1, <1>4, <1>6 DEF Resumable
<1>8. w.ev.op \in {"none", "number_end"} => Resumable(begun) /\ InEvent(begun, c)
  BY <1>1, <1>4, <1>5, <1>6, <1>7 DEF InEvent
<1> HIDE DEF begun
<1> QED
  BY <1>1, <1>2, <1>3, <1>5, <1>8, ReturnHolds, ContinueHolds

LEMMA EventDoneHolds ==
  ASSUME NEW v, Resumable(v)
  PROVE  Resumable(EventDone(v))
<1> DEFINE k == Cleared(v)
           x == [k.frames EXCEPT ![Len(v.frames)].afterKey = TRUE]
           e == <<>>
           u == [k EXCEPT !.frames = x]
           n == [k EXCEPT !.number = e, !.numOpen = FALSE]
<1>1. EventDone(v) = CASE call.op = "key" -> u
                       [] call.op = "number_end" -> n
                       [] OTHER -> k
  BY DEF EventDone
<1>2. Resumable(k)
  BY ClearedHolds
<1>3. e \in Text
  BY TextFacts
<1> HIDE DEF k, x, e
<1>4. Resumable(u)
  BY <1>2, FlagsAlike, AlikeHolds
<1>5. /\ DOMAIN n = DOMAIN k /\ n.number = e /\ n.ev = k.ev /\ n.reader = k.reader
      /\ n.child = k.child
  BY <1>2, FieldFacts DEF Resumable
<1> HIDE DEF u, n
<1>6. Resumable(n)
  BY <1>2, <1>3, <1>5 DEF Resumable
<1> QED
  BY <1>1, <1>2, <1>4, <1>6

LEMMA TextParts ==
  ASSUME NEW s \in Text, s # <<>>
  PROVE  Head(s) \in Chars /\ Tail(s) \in Text /\ EscapeOf(Head(s)) \in Text
         /\ <<Head(s)>> \in Text
<1>1. Head(s) \in Chars /\ Tail(s) \in Text
  BY DEF Text
<1> QED
  BY <1>1, EscapeFacts, OneOrTwo

LEMMA EventTextHolds ==
  ASSUME WriterInv, mode = "generator", EventText
  PROVE  Kept
<1> DEFINE e == w.ev
           t == Tail(e.rest)
           d == EventDone(w)
           p2 == Phase(w, 2)
           p3 == Phase(w, 3)
           ev == [w.ev EXCEPT !.rest = t]
           u == [w EXCEPT !.ev = ev]
           b1 == <<Quote>>
           b2 == PieceOf(Head(e.rest))
           b3 == IF call.op = "key" THEN <<Quote, ":">> ELSE <<Quote>>
<1>1. /\ gen.phase # "idle" /\ Resumable(w) /\ Callable(call) /\ call.op \in EventOps
      /\ call.at = "text" /\ InEvent(w, call)
  BY DoingFacts DEF EventText, EventOps
<1>2. w.ev.op = call.op /\ w.ev.op # "child"
  BY <1>1 DEF InEvent, EventOps
<1>3. \/ Return(d) \/ Truncate(w)
      \/ Emit(b1, w, p2, call)
      \/ e.rest # <<>> /\ Emit(b2, w, u, call)
      \/ Emit(b3, p3, d, NoCall)
  BY DEF EventText
<1>4. /\ Resumable(p2) /\ p2.ev.op = w.ev.op /\ Resumable(p3)
  BY <1>1, <1>2, PhaseKept
<1>5. Resumable(d)
  BY <1>1, EventDoneHolds
<1>6. b1 \in Text /\ b3 \in Text
  BY TextFacts
<1>7. e.rest # <<>> => b2 \in Text /\ t \in Text
  <2>1. e.rest \in Text
    BY <1>1 DEF Resumable
  <2> HIDE DEF e
  <2> QED
    BY <2>1, TextParts DEF PieceOf
<1>8. InEvent(p2, call)
  <2> HIDE DEF p2
  <2> QED
    BY <1>1, <1>2, <1>4 DEF InEvent
<1>9. ASSUME e.rest # <<>> PROVE Resumable(u) /\ InEvent(u, call)
  <2>1. t \in Text
    BY <1>7, <1>9
  <2> HIDE DEF t
  <2>2. DOMAIN ev = DOMAIN NoEvent /\ ev.op = w.ev.op /\ ev.rest = t
    BY <1>1, FieldFacts DEF Resumable
  <2> HIDE DEF ev
  <2>3. /\ DOMAIN u = DOMAIN w /\ u.ev = ev /\ u.number = w.number /\ u.reader = w.reader
        /\ u.child = w.child
    BY <1>1, FieldFacts DEF Resumable
  <2> HIDE DEF u
  <2>4. Resumable(u)
    BY <1>1, <1>2, <2>1, <2>2, <2>3 DEF Resumable
  <2> QED
    BY <1>1, <1>2, <2>2, <2>3, <2>4 DEF InEvent
<1> HIDE DEF e, d, p2, p3, u, b1, b2, b3
<1>10. CASE Return(d) \/ Truncate(w)
  BY <1>1, <1>5, <1>10, ReturnHolds, TruncateHolds
<1>11. CASE Emit(b1, w, p2, call)
  BY <1>1, <1>4, <1>6, <1>8, <1>11, EmitHolds
<1>12. CASE e.rest # <<>> /\ Emit(b2, w, u, call)
  BY <1>1, <1>7, <1>9, <1>12, EmitHolds
<1>13. CASE Emit(b3, p3, d, NoCall)
  BY <1>1, <1>4, <1>5, <1>6, <1>13, NoCallHolds, EmitHolds
<1> QED
  BY <1>3, <1>10, <1>11, <1>12, <1>13

(***************************************************************************)
(* A reader callback.                                                      *)
(***************************************************************************)

\* The writer with another reader.
LEMMA ReaderKept ==
  ASSUME NEW v, Resumable(v), NEW r, DOMAIN r = DOMAIN NoReader,
         r.left \in Text, r.rest \in Text
  PROVE  Resumable([v EXCEPT !.reader = r])
<1> DEFINE u == [v EXCEPT !.reader = r]
<1>1. /\ DOMAIN u = DOMAIN v /\ u.ev = v.ev /\ u.number = v.number /\ u.reader = r
      /\ u.child = v.child
  BY FieldFacts DEF Resumable
<1> HIDE DEF u
<1>2. Resumable(u)
  BY <1>1 DEF Resumable
<1> QED
  BY <1>2 DEF u

LEMMA ReaderOpenHolds ==
  ASSUME WriterInv, mode = "generator", ReaderOpen
  PROVE  Kept
<1> DEFINE r == [NoReader EXCEPT !.active = TRUE, !.arg = call.arg, !.left = call.arg.data]
           o1 == [w EXCEPT !.strOpen = TRUE]
           begun == [o1 EXCEPT !.reader = r]
           p == Placed(w)
           c1 == At("text")
           c2 == At("quote")
           b == <<Quote>>
<1>1. /\ gen.phase # "idle" /\ Resumable(w) /\ Callable(call) /\ call.op = "string_reader"
  BY DoingFacts DEF ReaderOpen
<1>2. \/ Return(w) \/ Continue(w, c1) \/ BeforeValue(w, p, c2)
      \/ Emit(b, w, begun, c1)
  BY DEF ReaderOpen
<1>3. /\ Callable(c1) /\ c1.op = call.op /\ Callable(c2) /\ c2.op = call.op
  BY <1>1, AtHolds
<1>4. Resumable(p) /\ Resumable(o1)
  BY <1>1, PlacedAlike, FlagsAlike, AlikeHolds
<1>5. call.arg.data \in Text
  <2>1. call.arg \in Readers
    BY <1>1 DEF Callable
  <2>2. call.arg.data \in Seq(STRING)
    BY <2>1, WriterAssumption
  <2> QED
    BY <2>2, TextFacts
<1>6. DOMAIN r = DOMAIN NoReader /\ r.left = call.arg.data /\ r.rest = <<>>
  BY DEF NoReader
<1>7. b \in Text /\ <<>> \in Text
  BY TextFacts
<1> HIDE DEF r, o1
<1>8. Resumable(begun)
  BY <1>4, <1>5, <1>6, <1>7, ReaderKept
<1> HIDE DEF c1, c2, begun, p, b
<1>9. \A v : InEvent(v, c1) /\ InEvent(v, c2)
  BY <1>1, <1>3 DEF InEvent, EventOps
<1>10. CASE Return(w) \/ Continue(w, c1)
  BY <1>1, <1>3, <1>9, <1>10, ReturnHolds, ContinueHolds
<1>11. CASE BeforeValue(w, p, c2)
  BY <1>1, <1>3, <1>4, <1>9, <1>11, BeforeHolds
<1>12. CASE Emit(b, w, begun, c1)
  BY <1>1, <1>3, <1>7, <1>8, <1>9, <1>12, EmitHolds
<1> QED
  BY <1>2, <1>10, <1>11, <1>12

LEMMA ReaderTextHolds ==
  ASSUME WriterInv, mode = "generator", ReaderText
  PROVE  Kept
<1> DEFINE r == w.reader
           t == Tail(r.rest)
           r1 == [r EXCEPT !.rest = t]
           u1 == [w EXCEPT !.reader = r1]
           r2 == [r EXCEPT !.eof = TRUE]
           u2 == [w EXCEPT !.reader = r2]
           N == 1..SmallerOf(IoCapacity, Len(r.left))
           f(n) == SubSeq(r.left, 1, n)
           l(n) == Cut(r.left, n)
           u3(n) == [w EXCEPT !.reader = [r EXCEPT !.rest = f(n), !.left = l(n)]]
           o1 == [w EXCEPT !.strOpen = FALSE]
           u4 == [o1 EXCEPT !.reader = NoReader]
           b1 == EscapeOf(Head(r.rest))
           b == <<Quote>>
<1>1. /\ gen.phase # "idle" /\ Resumable(w) /\ Callable(call) /\ call.op = "string_reader"
  <2>1. Doing({"string_reader"}, "text")
    BY DEF ReaderText
  <2> QED
    BY <2>1, DoingFacts
<1>2. \/ Truncate(w) \/ Return(w) \/ BreakCall(w)
      \/ r.rest # <<>> /\ Emit(b1, w, u1, call)
      \/ Continue(u2, call)
      \/ \E n \in N : Continue(u3(n), call)
      \/ Emit(b, w, u4, NoCall)
  BY <1>1 DEF ReaderText
<1>3. DOMAIN r = DOMAIN NoReader /\ r.left \in Text /\ r.rest \in Text
  BY <1>1 DEF Resumable
<1> HIDE DEF r
<1>4. r.rest # <<>> => Resumable(u1) /\ b1 \in Text
  <2>1. ASSUME r.rest # <<>> PROVE Resumable(u1) /\ b1 \in Text
    <3>1. t \in Text /\ b1 \in Text
      BY <1>3, <2>1, TextParts
    <3> HIDE DEF t
    <3>2. DOMAIN r1 = DOMAIN NoReader /\ r1.left = r.left /\ r1.rest = t
      BY <1>3, FieldFacts
    <3> HIDE DEF r1
    <3> QED
      BY <1>1, <1>3, <3>1, <3>2, ReaderKept
  <2> QED
    BY <2>1
<1>5. Resumable(u2)
  <2>1. DOMAIN r2 = DOMAIN NoReader /\ r2.left = r.left /\ r2.rest = r.rest
    BY <1>3, FieldFacts
  <2> HIDE DEF r2
  <2> QED
    BY <1>1, <1>3, <2>1, ReaderKept
<1>6. ASSUME NEW n \in N PROVE Resumable(u3(n))
  <2> DEFINE x == f(n)
             y == l(n)
             r3 == [r EXCEPT !.rest = x, !.left = y]
  <2>1. n \in Nat /\ n <= Len(r.left)
    <3>1. Len(r.left) \in Nat /\ IoCapacity \in Nat
      BY <1>3, GeneratorAssumption DEF Text
    <3>2. /\ SmallerOf(IoCapacity, Len(r.left)) \in Nat
          /\ SmallerOf(IoCapacity, Len(r.left)) <= Len(r.left)
      BY <3>1, SmallerFacts
    <3> QED
      BY <3>1, <3>2
  <2>2. x \in Text /\ y \in Text
    BY <1>3, <2>1, CutFacts DEF Text
  <2> HIDE DEF f, l
  <2> HIDE DEF x, y
  <2>3. DOMAIN r3 = DOMAIN NoReader /\ r3.left = y /\ r3.rest = x
    BY <1>3, FieldFacts
  <2> HIDE DEF r3
  <2>4. Resumable([w EXCEPT !.reader = r3])
    BY <1>1, <2>2, <2>3, ReaderKept
  <2> QED
    BY <2>4 DEF r3, x, y
<1>7. Resumable(u4)
  <2>1. Resumable(o1)
    BY <1>1, FlagsAlike, AlikeHolds
  <2>2. NoReader.left \in Text /\ NoReader.rest \in Text
    BY TextFacts DEF NoReader
  <2> HIDE DEF o1
  <2> QED
    BY <2>1, <2>2, ReaderKept
<1>8. b \in Text
  BY TextFacts
<1> HIDE DEF u1, u2, u3, u4, b1, b, N
<1>9. \A v : InEvent(v, call)
  BY <1>1 DEF InEvent, EventOps
<1>10. CASE Truncate(w) \/ Return(w) \/ BreakCall(w)
  BY <1>1, <1>10, TruncateHolds, ReturnHolds, BreakHolds
<1>11. CASE r.rest # <<>> /\ Emit(b1, w, u1, call)
  BY <1>1, <1>4, <1>9, <1>11, EmitHolds
<1>12. CASE Continue(u2, call) \/ \E n \in N : Continue(u3(n), call)
  BY <1>1, <1>5, <1>6, <1>9, <1>12, ContinueHolds
<1>13. CASE Emit(b, w, u4, NoCall)
  BY <1>1, <1>7, <1>8, <1>13, NoCallHolds, EmitHolds
<1> QED
  BY <1>2, <1>10, <1>11, <1>12, <1>13

(***************************************************************************)
(* A child generator.                                                      *)
(***************************************************************************)

LEMMA ChildKept ==
  ASSUME NEW v, Resumable(v), NEW g \in Gens
  PROVE  Resumable([v EXCEPT !.child = g]) /\ [v EXCEPT !.child = g].child = g
<1> DEFINE u == [v EXCEPT !.child = g]
<1>1. /\ DOMAIN u = DOMAIN v /\ u.ev = v.ev /\ u.number = v.number /\ u.reader = v.reader
      /\ u.child = g
  BY FieldFacts DEF Resumable
<1> HIDE DEF u
<1>2. Resumable(u)
  BY <1>1 DEF Resumable
<1> QED
  BY <1>1, <1>2 DEF u

\* A call that goes on with its child.
LEMMA ChildGoesOn ==
  ASSUME call.op = "child", NEW v, v.child \in Gens, NEW c, c.op = call.op
  PROVE  InEvent(v, c)
  BY DEF InEvent, EventOps

LEMMA RoomFacts ==
  ASSUME WriterInv, mode = "generator"
  PROVE  ChildRoom \in Nat
<1>1. gen.out \in Text /\ gen.cap \in Nat /\ Len(gen.out) <= gen.cap
  BY DEF WriterInv, Buffered, BufferRecords
<1>2. gen.cap - Len(gen.out) \in Nat /\ ChildCapacity \in Nat
  BY <1>1, WriterAssumption DEF Text
<1> QED
  BY <1>2, SmallerFacts DEF ChildRoom

LEMMA ChildReadHolds ==
  ASSUME WriterInv, mode = "generator", ChildRead
  PROVE  Kept
<1> DEFINE g == GenRead(w.child, ChildRoom)
           u == [w EXCEPT !.child = g]
           c == At("turn")
<1>1. /\ gen.phase # "idle" /\ call.op = "child" /\ call.at = "child" /\ Resumable(w)
      /\ Callable(call) /\ InEvent(w, call)
  BY DoingFacts DEF ChildRead
<1>2. w.child \in Gens
  BY <1>1 DEF InEvent
<1>3. Truncate(w) \/ Continue(u, c)
  BY DEF ChildRead
<1>4. g \in Gens
  BY <1>2, RoomFacts, GenReadFacts
<1>5. Callable(c) /\ c.op = call.op
  BY <1>1, AtHolds
<1> HIDE DEF g, c
<1>6. Resumable(u) /\ u.child \in Gens
  BY <1>1, <1>4, ChildKept
<1> HIDE DEF u
<1>7. InEvent(u, c)
  BY <1>1, <1>5, <1>6, ChildGoesOn
<1> QED
  BY <1>1, <1>3, <1>5, <1>6, <1>7, TruncateHolds, ContinueHolds

LEMMA ChildTurnHolds ==
  ASSUME WriterInv, mode = "generator", ChildTurn
  PROVE  Kept
<1>1. /\ gen.phase # "idle" /\ call.op = "child" /\ call.at = "turn" /\ Resumable(w)
      /\ Callable(call) /\ InEvent(w, call)
  BY DoingFacts DEF ChildTurn
<1>2. w.child \in Gens
  BY <1>1 DEF InEvent
<1>3. PICK g \in GenTurn(w.child) : Continue([w EXCEPT !.child = g], call)
  BY DEF ChildTurn
<1> DEFINE u == [w EXCEPT !.child = g]
<1>4. g \in Gens
  BY <1>2, GenTurnFacts
<1>5. Resumable(u) /\ u.child \in Gens
  BY <1>1, <1>4, ChildKept
<1>6. Continue(u, call)
  BY <1>3
<1> HIDE DEF u
<1>7. InEvent(u, call)
  BY <1>1, <1>5, ChildGoesOn
<1> QED
  BY <1>1, <1>5, <1>6, <1>7, ContinueHolds

LEMMA ChildEmitHolds ==
  ASSUME WriterInv, mode = "generator", ChildEmit
  PROVE  Kept
<1> DEFINE g == w.child
           s == [g EXCEPT !.out = <<>>]
           u == [w EXCEPT !.child = s]
           c == At("sent")
           d == Cleared(w)
           b == g.out
<1>1. /\ gen.phase # "idle" /\ call.op = "child" /\ call.at = "turn" /\ Resumable(w)
      /\ Callable(call) /\ InEvent(w, call)
  <2>1. Doing({"child"}, "turn")
    BY DEF ChildEmit
  <2> QED
    BY <2>1, DoingFacts
<1>2. g \in Gens
  BY <1>1 DEF InEvent
<1>3. BreakCall(w) \/ Emit(b, w, u, c) \/ Return(d) \/ Truncate(w)
  BY DEF ChildEmit
<1>4. b \in Text
  BY <1>2 DEF Gens, GenRecords
<1>5. s \in Gens
  BY <1>2, GenOutSent
<1>6. Callable(c) /\ c.op = call.op
  BY <1>1, AtHolds
<1>7. Resumable(d)
  BY <1>1, ClearedHolds
<1> HIDE DEF s, c, d, b
<1>8. Resumable(u) /\ u.child \in Gens
  BY <1>1, <1>5, ChildKept
<1> HIDE DEF u
<1>9. InEvent(u, c)
  BY <1>1, <1>6, <1>8, ChildGoesOn
<1>10. CASE Emit(b, w, u, c)
  BY <1>1, <1>4, <1>6, <1>8, <1>9, <1>10, EmitHolds
<1>11. CASE BreakCall(w) \/ Return(d) \/ Truncate(w)
  BY <1>1, <1>7, <1>11, BreakHolds, ReturnHolds, TruncateHolds
<1> QED
  BY <1>3, <1>10, <1>11

LEMMA ChildSentHolds ==
  ASSUME WriterInv, mode = "generator", ChildSent
  PROVE  Kept
<1> DEFINE c == At("child")
           d == Cleared(w)
<1>1. /\ gen.phase # "idle" /\ call.op = "child" /\ call.at = "sent" /\ Resumable(w)
      /\ Callable(call) /\ InEvent(w, call)
  BY DoingFacts DEF ChildSent
<1>2. w.child \in Gens
  BY <1>1 DEF InEvent
<1>3. Truncate(w) \/ Return(d) \/ Continue(w, c)
  BY DEF ChildSent
<1>4. Callable(c) /\ c.op = call.op
  BY <1>1, AtHolds
<1>5. Resumable(d)
  BY <1>1, ClearedHolds
<1> HIDE DEF c, d
<1>6. InEvent(w, c)
  BY <1>1, <1>2, <1>4, ChildGoesOn
<1> QED
  BY <1>1, <1>3, <1>4, <1>5, <1>6, TruncateHolds, ReturnHolds, ContinueHolds

(***************************************************************************)
(* The read loop.                                                          *)
(***************************************************************************)

LEMMA ReadStartHolds ==
  ASSUME WriterInv, mode = "generator", NEW cap \in Capacities, ReadStart(cap)
  PROVE  WriterInv'
<1> DEFINE e == <<>>
           f == [gen EXCEPT !.phase = "reading", !.cap = cap, !.out = e]
<1>1. /\ gen.phase = "idle" /\ gen' = f /\ mode' = mode /\ w' = w /\ call' = call
      /\ written' = written /\ got' = got
  BY DEF ReadStart
<1>2. Buffered(gen)
  BY DEF WriterInv
<1>3. e \in Text /\ Len(e) = 0 /\ gen.out = e /\ cap \in Nat
  BY <1>1, <1>2, WriterAssumption DEF Buffered, Text
<1> HIDE DEF e
<1>4. /\ f \in BufferRecords /\ f.out = e /\ f.pending = gen.pending /\ f.cap = cap
      /\ f.phase = "reading" /\ f.blocked = gen.blocked
  BY <1>2, <1>3 DEF Buffered, BufferRecords
<1> HIDE DEF f
<1>5. Buffered(f)
  BY <1>2, <1>3, <1>4 DEF Buffered
<1> QED
  BY <1>1, <1>3, <1>4, <1>5 DEF WriterInv

LEMMA ReadFlushFacts ==
  ASSUME NEW s, Buffered(s), s.phase # "idle"
  PROVE  /\ Buffered(ReadFlush(s)) /\ ReadFlush(s).phase = s.phase
         /\ ReadFlush(s).done = s.done
         /\ \A a \in Text : Whole(a, ReadFlush(s).out, ReadFlush(s).pending)
                              = Whole(a, s.out, s.pending)
<1> DEFINE f == GenFlush(s)
           k == f.blocked /\ f.pending # <<>>
           h == [f EXCEPT !.blocked = k]
<1>1. ReadFlush(s) = h
  BY DEF ReadFlush
<1>2. /\ f \in BufferRecords /\ Len(f.out) <= f.cap
      /\ ~s.blocked => f.pending = <<>>
      /\ f.blocked = s.blocked /\ f.phase = s.phase /\ f.done = s.done
      /\ \A a \in Text : Whole(a, f.out, f.pending) = Whole(a, s.out, s.pending)
  BY GenFlushFacts
<1> HIDE DEF f
<1>3. k \in BOOLEAN /\ (~k => f.pending = <<>>)
  BY <1>2
<1> HIDE DEF k
<1>4. /\ h \in BufferRecords /\ h.out = f.out /\ h.pending = f.pending /\ h.cap = f.cap
      /\ h.phase = f.phase /\ h.blocked = k /\ h.done = f.done
  BY <1>2, <1>3 DEF BufferRecords
<1> HIDE DEF h
<1>5. Buffered(h)
  BY <1>2, <1>3, <1>4 DEF Buffered
<1> QED
  BY <1>1, <1>2, <1>4, <1>5

LEMMA ReadLoopHolds ==
  ASSUME WriterInv, mode = "generator", ReadLoop
  PROVE  WriterInv'
<1> DEFINE f == IF Len(gen.out) >= gen.cap THEN gen ELSE ReadFlush(gen)
           e == <<>>
           h == [f EXCEPT !.phase = "idle", !.out = e]
           p == [f EXCEPT !.phase = "producing"]
<1>1. /\ gen.phase = "reading" /\ mode' = mode /\ w' = w /\ call' = call
      /\ written' = written
      /\ \/ gen' = h /\ got' = got \o f.out
         \/ gen' = p /\ got' = got
  BY DEF ReadLoop
<1>2. /\ Buffered(gen) /\ got \in Text /\ Whole(got, gen.out, gen.pending) = written
      /\ written \in Text
  BY DEF WriterInv
<1>3. /\ Buffered(f) /\ Whole(got, f.out, f.pending) = written
  BY <1>1, <1>2, ReadFlushFacts
<1> HIDE DEF f
<1>4. e \in Text /\ Len(e) = 0
  BY DEF Text
<1>5. f.out \in Text /\ f.pending \in Text /\ f.cap \in Nat
  BY <1>3 DEF Buffered, BufferRecords
<1>6. CASE gen' = h /\ got' = got \o f.out
  <2>1. got \o f.out \in Text
    BY <1>2, <1>5, ConcatText
  <2>2. Whole(got \o f.out, e, f.pending) = written
    BY <1>2, <1>3, <1>5, WholeFacts
  <2> HIDE DEF e
  <2>3. /\ h \in BufferRecords /\ h.out = e /\ h.pending = f.pending /\ h.cap = f.cap
        /\ h.phase = "idle" /\ h.blocked = f.blocked
    BY <1>3, <1>4 DEF Buffered, BufferRecords
  <2> HIDE DEF h
  <2>4. Buffered(h)
    BY <1>3, <1>4, <1>5, <2>3 DEF Buffered, e
  <2> QED
    BY <1>1, <1>2, <1>6, <2>1, <2>2, <2>3, <2>4 DEF WriterInv
<1>7. CASE gen' = p /\ got' = got
  <2>1. Buffered(p) /\ p.out = f.out /\ p.pending = f.pending
    BY <1>3, PhaseHolds
  <2> HIDE DEF p
  <2> QED
    BY <1>1, <1>2, <1>3, <1>7, <2>1 DEF WriterInv
<1> QED
  BY <1>1, <1>6, <1>7

LEMMA ProducerReturnsHolds ==
  ASSUME WriterInv, mode = "generator", ProducerReturns
  PROVE  WriterInv'
<1> DEFINE u == [w EXCEPT !.finished = TRUE]
           f == [gen EXCEPT !.phase = "reading", !.done = TRUE]
           h == [gen EXCEPT !.phase = "failed"]
<1>1. /\ mode' = mode /\ call' = call /\ written' = written /\ got' = got /\ call = NoCall
      /\ \/ w' = u /\ gen' = f
         \/ w' = w /\ gen' = h
  BY DEF ProducerReturns
<1>2. Buffered(gen) /\ Resumable(w)
  BY DEF WriterInv
<1>3. Resumable(u)
  BY <1>2, FlagsAlike, AlikeHolds
<1>4. /\ f \in BufferRecords /\ f.out = gen.out /\ f.pending = gen.pending /\ f.cap = gen.cap
      /\ f.phase = "reading" /\ f.blocked = gen.blocked
  BY <1>2 DEF Buffered, BufferRecords
<1>5. Buffered(h) /\ h.out = gen.out /\ h.pending = gen.pending
  BY <1>2, PhaseHolds
<1> HIDE DEF u, f, h
<1>6. Buffered(f)
  BY <1>2, <1>4 DEF Buffered
<1> QED
  BY <1>1, <1>3, <1>4, <1>5, <1>6, NoCallHolds DEF WriterInv

(***************************************************************************)
(* The client.                                                             *)
(***************************************************************************)

LEMMA StartHolds ==
  ASSUME WriterInv, mode = "generator", NEW op \in ProducerOps, NEW arg, Start(op, arg),
         op \in TextOps => arg \in Text, op = "child" => arg \in Children,
         op = "string_reader" => arg \in Readers
  PROVE  Kept
<1> DEFINE c == [NoCall EXCEPT !.op = op, !.arg = arg]
<1>1. /\ call' = c /\ mode' = mode /\ w' = w /\ gen' = gen /\ written' = written /\ got' = got
      /\ eof' = eof
  BY DEF Start
<1>2. DOMAIN c = DOMAIN NoCall /\ c.op = op /\ c.arg = arg /\ c.at = "enter"
  BY DEF NoCall
<1> HIDE DEF c
<1>3. Callable(c) /\ InEvent(w, c)
  BY <1>2 DEF Callable, InEvent
<1>4. WriterInv'
  BY <1>1, <1>3 DEF WriterInv
<1> QED
  BY <1>1, <1>4, StillMoves DEF Kept

LEMMA ClientHolds ==
  ASSUME WriterInv, mode = "generator", Client
  PROVE  Kept
<1>1. CASE CallShort
  <2>1. PICK op \in {"end_object", "end_array", "string_end", "number_end"} : Start(op, <<>>)
    BY <1>1 DEF CallShort
  <2>2. op \in ProducerOps /\ op \notin TextOps /\ op # "child" /\ op # "string_reader"
    BY DEF ProducerOps, TextOps
  <2> QED
    BY <2>1, <2>2, StartHolds
<1>2. CASE CallPlain
  <2>1. PICK op \in OpeningOps \cup {"number_begin"} : Start(op, <<>>)
    BY <1>2 DEF CallPlain
  <2>2. op \in ProducerOps /\ op \notin TextOps /\ op # "child" /\ op # "string_reader"
    BY DEF ProducerOps, TextOps, OpeningOps
  <2> QED
    BY <2>1, <2>2, StartHolds
<1>3. CASE CallWithText
  <2>1. PICK op \in TextOps, arg \in Keys \cup Strings \cup Numbers \cup Scalars \cup Pieces :
          Start(op, arg)
    BY <1>3 DEF CallWithText, TextOps
  <2>2. arg \in Text
    <3>1. arg \in Seq(STRING)
      BY <2>1, WriterAssumption
    <3> QED
      BY <3>1, TextFacts
  <2>3. op \in ProducerOps /\ op # "child" /\ op # "string_reader"
    BY DEF ProducerOps, TextOps
  <2> QED
    BY <2>1, <2>2, <2>3, StartHolds
<1>4. CASE CallStreamed
  <2>1. \/ \E r \in Readers : Start("string_reader", r)
        \/ \E v \in Children : Start("child", v)
    BY <1>4 DEF CallStreamed
  <2>2. /\ "string_reader" \in ProducerOps /\ "child" \in ProducerOps
        /\ "string_reader" \notin TextOps /\ "child" \notin TextOps
    BY DEF ProducerOps, TextOps
  <2> QED
    BY <2>1, <2>2, StartHolds
<1>5. ~CallSinkOnly
  BY DEF CallSinkOnly
<1> QED
  BY <1>1, <1>2, <1>3, <1>4, <1>5 DEF Client

\* The calls that only a writer with a sink accepts are not made.
LEMMA NoSinkCalls ==
  ASSUME WriterInv, mode = "generator"
  PROVE  /\ ~StreamOpen /\ ~ValueRead /\ ~StreamPush /\ ~StreamFeed /\ ~StreamClose
         /\ ~StreamCleanup /\ ~ItemsEnter /\ ~ItemStart /\ ~ItemText /\ ~ItemsEnd /\ ~Finish
<1> DEFINE sinkOps == {"stream_open", "value_reader", "stream_push", "stream_close",
                       "stream_cleanup", "array_items", "finish"}
<1>1. call.op \notin sinkOps
  BY DEF WriterInv, Callable, ProducerOps, TextOps
<1>2. \A p : \A ops \in SUBSET sinkOps : ~Doing(ops, p)
  BY <1>1 DEF Doing
<1>3. /\ {"stream_open", "value_reader"} \in SUBSET sinkOps
      /\ {"value_reader"} \in SUBSET sinkOps
      /\ {"stream_push"} \in SUBSET sinkOps
      /\ {"stream_push", "value_reader"} \in SUBSET sinkOps
      /\ {"stream_close"} \in SUBSET sinkOps
      /\ {"stream_cleanup"} \in SUBSET sinkOps
      /\ {"array_items"} \in SUBSET sinkOps
      /\ {"finish"} \in SUBSET sinkOps
  OBVIOUS
<1> HIDE DEF sinkOps
<1>4. ~StreamOpen /\ ~ValueRead /\ ~StreamPush
  BY <1>2, <1>3 DEF StreamOpen, ValueRead, StreamPush
<1>5. ~StreamFeed
  BY <1>2, <1>3, Zenon DEF StreamFeed
<1>6. ~StreamClose /\ ~StreamCleanup /\ ~Finish
  BY <1>2, <1>3 DEF StreamClose, StreamCleanup, Finish
<1>7. ~ItemsEnter /\ ~ItemStart /\ ~ItemText /\ ~ItemsEnd
  BY <1>2, <1>3, Zenon DEF ItemsEnter, ItemStart, ItemText, ItemsEnd
<1> QED
  BY <1>4, <1>5, <1>6, <1>7

(***************************************************************************)
(* The mode of a writer never changes.                                     *)
(***************************************************************************)

LEMMA ModeOfCalls ==
  /\ \A v : Return(v) \/ Truncate(v) \/ BreakCall(v) => mode' = mode
  /\ \A v, c : Continue(v, c) => mode' = mode
  /\ \A b, v : EmitBreaks(b, v) => mode' = mode
  BY DEF Return, Truncate, BreakCall, Continue, EmitBreaks

LEMMA ModeOfEmit ==
  ASSUME NEW b, NEW v, NEW u, NEW c, Emit(b, v, u, c)
  PROVE  mode' = mode
<1>1. CASE b = <<>>
  BY <1>1, ModeOfCalls DEF Emit
<1>2. CASE b # <<>>
  <2> DEFINE r == GenSink(gen, b)
             x == [r.gen EXCEPT !.phase = "reading"]
             y == [NoCall EXCEPT !.op = call.op, !.arg = call.arg]
  <2>1. \/ /\ mode = "generator"
           /\ IF r.taken
              THEN gen' = r.gen /\ w' = u /\ call' = c /\ written' = written \o b
                   /\ UNCHANGED <<mode, got, eof, broken>>
              ELSE gen' = x /\ w' = v /\ call' = y
                   /\ UNCHANGED <<mode, written, got, eof, broken>>
        \/ /\ mode = "sink" /\ w' = u /\ call' = c /\ written' = written \o b
           /\ UNCHANGED <<mode, gen, got, eof, broken>>
        \/ mode = "sink" /\ Return(Poisoned(v))
    BY <1>2 DEF Emit
  <2> HIDE DEF r, x, y
  <2> QED
    BY <2>1, ModeOfCalls
<1> QED
  BY <1>1, <1>2

LEMMA ModeOfBefore ==
  ASSUME NEW v, NEW u, NEW c, BeforeValue(v, u, c)
  PROVE  mode' = mode
<1> DEFINE b == IF Inside(v, "array") THEN Comma(v) ELSE <<>>
<1>1. Return(v) \/ Truncate(v) \/ Emit(b, v, u, c)
  BY Zenon DEF BeforeValue
<1> HIDE DEF b
<1> QED
  BY <1>1, ModeOfCalls, ModeOfEmit

LEMMA ModeOfActions ==
  ASSUME WriterNext
  PROVE  mode' = mode
<1>1. CASE Client
  <2>1. PICK op, arg : Start(op, arg)
    BY <1>1, Zenon DEF Client, CallShort, CallPlain, CallWithText, CallStreamed, CallSinkOnly
  <2> QED
    BY <2>1 DEF Start
<1>2. CASE GeneratorRead
  BY <1>2 DEF GeneratorRead, ReadStart, ReadLoop, ProducerReturns
<1>3. CASE ChildTurn
  BY <1>3, ModeOfCalls DEF ChildTurn
<1>4. CASE OpenPlace \/ OpenEmit \/ OpenBreaks \/ ChildBreaks \/ EndContainer \/ StringEnd
  BY <1>4, ModeOfCalls, ModeOfEmit, ModeOfBefore, Zenon
     DEF OpenPlace, OpenEmit, OpenBreaks, ChildBreaks, EndContainer, StringEnd
<1>5. CASE KeyEnter \/ ValueEnter \/ ChunkEnter
  BY <1>5, ModeOfCalls, ModeOfEmit, ModeOfBefore, Zenon DEF KeyEnter, ValueEnter, ChunkEnter
<1>6. CASE NumberBegin \/ NumberChunk \/ NumberEnd
  BY <1>6, ModeOfCalls, ModeOfEmit, ModeOfBefore, Zenon DEF NumberBegin, NumberChunk, NumberEnd
<1>7. CASE EventText \/ ReaderOpen
  BY <1>7, ModeOfCalls, ModeOfEmit, ModeOfBefore, Zenon DEF EventText, ReaderOpen
<1>8. CASE ReaderText
  BY <1>8, ModeOfCalls, ModeOfEmit, Zenon DEF ReaderText
<1>9. CASE ChildRead \/ ChildEmit \/ ChildSent
  BY <1>9, ModeOfCalls, ModeOfEmit, Zenon DEF ChildRead, ChildEmit, ChildSent
<1>10. CASE StreamOpen \/ ValueRead \/ StreamPush
  BY <1>10, ModeOfCalls, ModeOfBefore, Zenon DEF StreamOpen, ValueRead, StreamPush
<1>11. CASE StreamFeed
  BY <1>11, ModeOfCalls, ModeOfEmit, Zenon DEF StreamFeed
<1>12. CASE StreamClose \/ StreamCleanup \/ Finish
  BY <1>12, ModeOfCalls, Zenon DEF StreamClose, StreamCleanup, Finish
<1>13. CASE ItemsEnter \/ ItemStart
  BY <1>13, ModeOfCalls, ModeOfBefore, Zenon DEF ItemsEnter, ItemStart
<1>14. CASE ItemText \/ ItemsEnd
  BY <1>14, ModeOfCalls, ModeOfEmit, Zenon DEF ItemText, ItemsEnd
<1> QED
  BY <1>1, <1>2, <1>3, <1>4, <1>5, <1>6, <1>7, <1>8, <1>9, <1>10, <1>11, <1>12, <1>13, <1>14
     DEF WriterNext, CallStep

(***************************************************************************)
(* The theorems.                                                           *)
(***************************************************************************)

LEMMA WriterInitHolds ==
  ASSUME WriterInit
  PROVE  WriterInv
<1>1. /\ w = WriterStart /\ gen = GenStart /\ call = NoCall /\ written = <<>> /\ got = <<>>
  BY DEF WriterInit
<1>2. <<>> \in Text /\ Len(<<>>) = 0
  BY DEF Text
<1>3. Resumable(WriterStart)
  BY <1>2 DEF Resumable, WriterStart, NoEvent, NoReader
<1>4. Buffered(GenStart) /\ GenStart.out = <<>> /\ GenStart.pending = <<>>
  BY <1>2 DEF Buffered, BufferRecords, GenStart
<1>5. Whole(<<>>, <<>>, <<>>) = <<>>
  <2>1. <<>> \in Seq(Chars)
    OBVIOUS
  <2>2. <<>> \o <<>> = <<>>
    BY <2>1, ConcatEmptySeq
  <2> QED
    BY <2>2 DEF Whole
<1> QED
  BY <1>1, <1>2, <1>3, <1>4, <1>5, NoCallHolds DEF WriterInv

LEMMA CallsHold ==
  ASSUME WriterInv, mode = "generator", Client \/ CallStep \/ ChildTurn
  PROVE  Kept
<1>1. CASE Client
  BY <1>1, ClientHolds
<1>2. CASE CallStep
  <2>1. ~StreamOpen /\ ~ValueRead /\ ~StreamPush /\ ~StreamFeed /\ ~StreamClose
        /\ ~StreamCleanup /\ ~ItemsEnter /\ ~ItemStart /\ ~ItemText /\ ~ItemsEnd /\ ~Finish
    BY NoSinkCalls
  <2>2. \/ OpenPlace \/ OpenEmit \/ OpenBreaks \/ ChildBreaks \/ EndContainer \/ StringEnd
        \/ KeyEnter \/ ValueEnter \/ ChunkEnter \/ NumberBegin \/ NumberChunk \/ NumberEnd
        \/ EventText \/ ReaderOpen \/ ReaderText
        \/ ChildRead \/ ChildEmit \/ ChildSent
    BY <1>2, <2>1 DEF CallStep
  <2> QED
    BY <2>2, OpenPlaceHolds, OpenEmitHolds, OpenBreaksHolds, ChildBreaksHolds, EndContainerHolds, StringEndHolds,
       KeyEnterHolds, ValueEnterHolds, ChunkEnterHolds, NumberBeginHolds, NumberChunkHolds,
       NumberEndHolds, EventTextHolds, ReaderOpenHolds, ReaderTextHolds, ChildReadHolds,
       ChildEmitHolds, ChildSentHolds
<1>3. CASE ChildTurn
  BY <1>3, ChildTurnHolds
<1> QED
  BY <1>1, <1>2, <1>3

LEMMA WriterStepHolds ==
  ASSUME WriterInv, WriterNext
  PROVE  WriterInv'
<1>1. CASE mode # "generator"
  BY <1>1, ModeOfActions DEF WriterInv
<1>2. CASE mode = "generator"
  <2>1. CASE Client \/ CallStep \/ ChildTurn
    BY <1>2, <2>1, CallsHold DEF Kept
  <2>2. CASE GeneratorRead
    BY <1>2, <2>2, ReadStartHolds, ReadLoopHolds, ProducerReturnsHolds DEF GeneratorRead
  <2> QED
    BY <2>1, <2>2 DEF WriterNext
<1> QED
  BY <1>1, <1>2

LEMMA WriterInvariant == WriterSpec => []WriterInv
<1>1. WriterInit => WriterInv
  BY WriterInitHolds
<1>2. WriterInv /\ [WriterNext]_writerVars => WriterInv'
  <2>1. ASSUME WriterInv, UNCHANGED writerVars PROVE WriterInv'
    BY <2>1 DEF writerVars, WriterInv
  <2> QED
    BY <2>1, WriterStepHolds
<1> QED
  BY <1>1, <1>2, PTL DEF WriterSpec

\* Whatever calls a producer makes, and makes again, and whatever the sizes of
\* the consumer's reads, a byte that a call has emitted is in one place
\* (lonejson__writer_generator_sink, _set_pending, _flush_pending and _read).
THEOREM EveryByteKept == WriterSpec => []NothingLost
<1>1. WriterInv => NothingLost
  BY DEF WriterInv, NothingLost, Whole
<1> QED
  BY <1>1, WriterInvariant, PTL

\* What a read has gathered fits the consumer's buffer, and what a child has
\* gathered the room it was given (lonejson__writer_generator_sink, lonejson__
\* generator_flush_pending and lonejson__json_pull_read copy no more than that).
ReadsFit ==
  mode = "generator" =>
    /\ Len(gen.out) <= gen.cap
    /\ call.op = "child" /\ call.at # "enter" => Len(w.child.out) <= w.child.cap

\* No copy of lonejson__writer_generator_read, or of the lonejson_generator_read
\* of a child, overruns its buffer, whatever is written and read.
THEOREM NoBufferOverrun == WriterSpec => []ReadsFit
<1>1. WriterInv => ReadsFit
  BY DEF WriterInv, ReadsFit, Buffered, InEvent, Gens, GenHolds
<1> QED
  BY <1>1, WriterInvariant, PTL

-----------------------------------------------------------------------------
(***************************************************************************)
(* The writer behind a generator implements BytePipe.                      *)
(***************************************************************************)

\* The producer is done when the end is announced, and does not run again.
PipeInv ==
  /\ WriterInv
  /\ mode = "generator" /\ eof \in BOOLEAN
  /\ gen.done => gen.phase \in {"idle", "reading"}
  /\ eof => gen.done /\ gen.pending = <<>> /\ gen.phase = "idle"

LEMMA RunningActions ==
  ASSUME mode = "generator", Client \/ CallStep \/ ChildTurn
  PROVE  gen.phase = "producing"
<1>1. Running => gen.phase = "producing"
  BY DEF Running
<1>2. CASE Client
  <2>1. PICK op, arg : Start(op, arg)
    BY <1>2, Zenon DEF Client, CallShort, CallPlain, CallWithText, CallStreamed, CallSinkOnly
  <2> QED
    BY <1>1, <2>1 DEF Start
<1>3. CASE ChildTurn
  BY <1>1, <1>3 DEF ChildTurn, Doing
<1>4. CASE CallStep
  <2>1. PICK ops, p : Doing(ops, p)
    <3>1. CASE \/ OpenPlace \/ OpenEmit \/ OpenBreaks \/ ChildBreaks \/ EndContainer \/ StringEnd
               \/ KeyEnter \/ ValueEnter \/ ChunkEnter
      BY <3>1, Zenon
         DEF OpenPlace, OpenEmit, OpenBreaks, ChildBreaks, EndContainer, StringEnd, KeyEnter, ValueEnter, ChunkEnter
    <3>2. CASE \/ NumberBegin \/ NumberChunk \/ NumberEnd
               \/ EventText \/ ReaderOpen \/ ReaderText \/ ChildRead \/ ChildEmit \/ ChildSent
      BY <3>2, Zenon
         DEF NumberBegin, NumberChunk, NumberEnd, EventText, ReaderOpen, ReaderText,
             ChildRead, ChildEmit, ChildSent
    <3>3. CASE \/ StreamOpen \/ ValueRead \/ StreamPush \/ StreamFeed \/ StreamClose
               \/ StreamCleanup \/ ItemsEnter \/ ItemStart \/ ItemText \/ ItemsEnd \/ Finish
      BY <3>3, Zenon
         DEF StreamOpen, ValueRead, StreamPush, StreamFeed, StreamClose, StreamCleanup,
             ItemsEnter, ItemStart, ItemText, ItemsEnd, Finish
    <3> QED
      BY <1>4, <3>1, <3>2, <3>3 DEF CallStep
  <2> QED
    BY <1>1, <2>1 DEF Doing
<1> QED
  BY <1>2, <1>3, <1>4

LEMMA PipeInitHolds ==
  ASSUME WriterInit, mode = "generator"
  PROVE  PipeInv /\ WriterPipe!PipeInit
<1>1. WriterInv
  BY WriterInitHolds
<1>2. /\ gen = GenStart /\ eof = FALSE /\ got = <<>> /\ written = <<>>
  BY DEF WriterInit
<1>3. GenStart.done = FALSE
  BY DEF GenStart
<1>4. <<>> \in Text
  BY TextFacts
<1>5. IsPrefix(got, written)
  BY <1>2, <1>4, PrefixFacts
<1>6. IsPrefix(got, written) <=> WriterPipe!IsPrefix(got, written)
  BY DEF IsPrefix, WriterPipe!IsPrefix
<1> QED
  BY <1>1, <1>2, <1>3, <1>5, <1>6 DEF PipeInv, WriterPipe!PipeInit

LEMMA PipeCalls ==
  ASSUME PipeInv, Client \/ CallStep \/ ChildTurn
  PROVE  PipeInv' /\ WriterPipe!Produce
<1>1. WriterInv' /\ Moves
  BY CallsHold DEF PipeInv, Kept
<1>2. gen.phase = "producing" /\ ~gen.done /\ ~eof
  BY RunningActions DEF PipeInv
<1>3. PipeInv'
  BY <1>1, <1>2 DEF PipeInv, Moves
<1>4. WriterPipe!IsPrefix(written, written')
  BY <1>1 DEF Moves, IsPrefix, WriterPipe!IsPrefix
<1> QED
  BY <1>1, <1>2, <1>3, <1>4 DEF Moves, WriterPipe!Produce

LEMMA PipeStarts ==
  ASSUME PipeInv, NEW cap \in Capacities, ReadStart(cap)
  PROVE  PipeInv' /\ UNCHANGED WriterPipe!pipe
<1>1. WriterInv'
  BY ReadStartHolds DEF PipeInv
<1>2. /\ gen' = [gen EXCEPT !.phase = "reading", !.cap = cap, !.out = <<>>]
      /\ mode' = mode /\ written' = written /\ got' = got /\ eof' = eof /\ ~eof
  BY DEF ReadStart
<1>3. gen \in BufferRecords
  BY DEF PipeInv, WriterInv, Buffered
<1>4. gen'.done = gen.done /\ gen'.phase = "reading"
  BY <1>2, <1>3 DEF BufferRecords
<1> QED
  BY <1>1, <1>2, <1>4 DEF PipeInv, WriterPipe!pipe

LEMMA PipeLoops ==
  ASSUME PipeInv, ReadLoop
  PROVE  /\ PipeInv'
         /\ WriterPipe!Deliver
<1> DEFINE f == IF Len(gen.out) >= gen.cap THEN gen ELSE ReadFlush(gen)
           e == <<>>
           h == [f EXCEPT !.phase = "idle", !.out = e]
           p == [f EXCEPT !.phase = "producing"]
<1>1. WriterInv'
  BY ReadLoopHolds DEF PipeInv
<1>2. /\ gen.phase = "reading" /\ mode' = mode /\ written' = written
      /\ \/ /\ gen' = h /\ got' = got \o f.out
            /\ eof' = (f.done /\ f.pending = <<>>)
         \/ gen' = p /\ got' = got /\ eof' = eof /\ ~ReadReturns(f)
  BY DEF ReadLoop
<1>3. /\ Buffered(gen) /\ got \in Text /\ Whole(got, gen.out, gen.pending) = written
      /\ written \in Text /\ ~eof
  BY <1>2 DEF WriterInv, PipeInv
<1>4. /\ Buffered(f) /\ Whole(got, f.out, f.pending) = written /\ f.done = gen.done
  BY <1>2, <1>3, ReadFlushFacts
<1>5. f \in BufferRecords /\ f.out \in Text /\ f.pending \in Text /\ f.done \in BOOLEAN
  BY <1>4 DEF Buffered, BufferRecords
<1> HIDE DEF f
<1>6. CASE gen' = h /\ got' = got \o f.out /\ eof' = (f.done /\ f.pending = <<>>)
  <2>1. got \o f.out \in Text
    BY <1>3, <1>5, ConcatText
  <2>2. (got \o f.out) \o f.pending = written
    BY <1>4 DEF Whole
  <2>3. IsPrefix(got, got') /\ IsPrefix(got', written)
    <3>1. IsPrefix(got, got \o f.out)
      BY <1>3, <1>5, PrefixFacts
    <3> DEFINE x == got \o f.out
    <3>2. IsPrefix(x, written)
      <4>1. x \in Text /\ x \o f.pending = written
        BY <2>1, <2>2
      <4> HIDE DEF x
      <4>2. IsPrefix(x, x \o f.pending)
        BY <1>5, <4>1, PrefixFacts
      <4> QED
        BY <4>1, <4>2
    <3> QED
      BY <1>6, <3>1, <3>2
  <2>4. f.pending = <<>> => got' = written
    <3> DEFINE x == got \o f.out
    <3>1. x \in Seq(Chars)
      BY <2>1 DEF Text
    <3>2. x \o <<>> = x
      <4> HIDE DEF x
      <4> QED
        BY <3>1, ConcatEmptySeq
    <3> QED
      BY <1>6, <2>2, <3>2
  <2> HIDE DEF e
  <2>5. h.phase = "idle" /\ h.done = f.done /\ h.pending = f.pending
    BY <1>5 DEF BufferRecords
  <2> HIDE DEF h
  <2>6. gen'.done = gen.done /\ gen'.pending = f.pending /\ gen'.phase = "idle"
    BY <1>4, <1>6, <2>5
  <2>7. PipeInv'
    BY <1>1, <1>2, <1>4, <1>5, <1>6, <2>6 DEF PipeInv
  <2>8. eof' => gen.done /\ got' = written
    BY <1>4, <1>6, <2>4
  <2>9. WriterPipe!IsPrefix(got, got') /\ WriterPipe!IsPrefix(got', written)
    BY <2>3 DEF IsPrefix, WriterPipe!IsPrefix
  <2> QED
    BY <1>2, <1>3, <2>6, <2>7, <2>8, <2>9 DEF WriterPipe!Deliver
<1>7. CASE gen' = p /\ got' = got /\ eof' = eof /\ ~ReadReturns(f)
  <2>1. ~f.done
    BY <1>7 DEF ReadReturns
  <2>2. p.phase = "producing" /\ p.done = f.done
    BY <1>5 DEF BufferRecords
  <2> HIDE DEF p
  <2>3. PipeInv'
    BY <1>1, <1>2, <1>3, <1>7, <2>1, <2>2 DEF PipeInv
  <2>4. IsPrefix(got, got') /\ IsPrefix(got', written)
    <3>1. IsPrefix(got, got)
      BY <1>3, PrefixFacts
    <3> DEFINE x == f.out \o f.pending
    <3>2. x \in Text
      BY <1>5, ConcatText
    <3>3. got \o x = written
      BY <1>3, <1>4, <1>5, JoinText, Zenon DEF Whole
    <3> HIDE DEF x
    <3>4. IsPrefix(got, got \o x)
      BY <1>3, <3>2, PrefixFacts
    <3> QED
      BY <1>7, <3>1, <3>3, <3>4
  <2>5. WriterPipe!IsPrefix(got, got') /\ WriterPipe!IsPrefix(got', written)
    BY <2>4 DEF IsPrefix, WriterPipe!IsPrefix
  <2>6. gen'.done = gen.done
    BY <1>4, <1>7, <2>2
  <2> QED
    BY <1>2, <1>3, <1>7, <2>3, <2>5, <2>6 DEF WriterPipe!Deliver
<1> QED
  BY <1>2, <1>6, <1>7

LEMMA PipeCloses ==
  ASSUME PipeInv, ProducerReturns
  PROVE  /\ PipeInv'
         /\ WriterPipe!ClosePipe \/ UNCHANGED WriterPipe!pipe
<1>1. WriterInv'
  BY ProducerReturnsHolds DEF PipeInv
<1>2. /\ gen.phase = "producing"
      /\ mode' = mode /\ written' = written /\ got' = got /\ eof' = eof
      /\ \/ gen' = [gen EXCEPT !.phase = "reading", !.done = TRUE]
         \/ gen' = [gen EXCEPT !.phase = "failed"]
  BY DEF ProducerReturns
<1>3. gen \in BufferRecords /\ ~gen.done /\ ~eof
  BY <1>2 DEF PipeInv, WriterInv, Buffered
<1>4. \/ gen'.done = TRUE /\ gen'.phase = "reading"
      \/ gen'.done = gen.done /\ gen'.phase = "failed"
  BY <1>2, <1>3 DEF BufferRecords
<1>5. PipeInv'
  BY <1>1, <1>2, <1>3, <1>4 DEF PipeInv
<1> QED
  BY <1>2, <1>3, <1>4, <1>5 DEF WriterPipe!ClosePipe, WriterPipe!pipe

\* A writer behind a generator (lonejson__writer_generator_read) is a byte
\* pipe: its consumer gets the bytes in order, each one once, and is told of
\* the end when the producer has finished and every byte was handed over,
\* never before; the producer does not run again after that.
THEOREM GeneratorIsPipe == WriterSpec /\ mode = "generator" => WriterPipe!PipeSpec
<1>1. WriterInit /\ mode = "generator" => PipeInv /\ WriterPipe!PipeInit
  BY PipeInitHolds
<1>2. PipeInv /\ [WriterNext]_writerVars =>
        /\ PipeInv'
        /\ [WriterPipe!Produce \/ WriterPipe!ClosePipe \/ WriterPipe!Deliver
              \/ WriterPipe!StartOver]_(WriterPipe!pipe)
  <2>1. ASSUME PipeInv, UNCHANGED writerVars
        PROVE  PipeInv' /\ UNCHANGED WriterPipe!pipe
    BY <2>1 DEF writerVars, PipeInv, WriterInv, WriterPipe!pipe
  <2>2. ASSUME PipeInv, WriterNext
        PROVE  /\ PipeInv'
               /\ \/ WriterPipe!Produce \/ WriterPipe!ClosePipe \/ WriterPipe!Deliver
                  \/ UNCHANGED WriterPipe!pipe
    BY <2>2, PipeCalls, PipeStarts, PipeLoops, PipeCloses DEF WriterNext, GeneratorRead
  <2> QED
    BY <2>1, <2>2
<1>3. FALSE \in BOOLEAN
  OBVIOUS
<1> QED
  BY <1>1, <1>2, <1>3, PTL DEF WriterSpec, WriterPipe!PipeSpec

\* Bytes wait only where the buffer is full.
LEMMA FlushFills ==
  ASSUME NEW s, Buffered(s)
  PROVE  /\ ReadFlush(s).cap = s.cap
         /\ ReadFlush(s).pending # <<>> => Len(ReadFlush(s).out) = s.cap
<1> DEFINE n == SmallerOf(Len(s.pending), s.cap - Len(s.out))
           x == s.out
           y == s.pending
           q == x \o SubSeq(y, 1, n)
           p == Cut(y, n)
           f == [s EXCEPT !.out = q, !.pending = p]
           k == f.blocked /\ f.pending # <<>>
<1>1. x \in Text /\ y \in Text /\ s.cap \in Nat /\ Len(x) <= s.cap
  BY DEF Buffered, BufferRecords
<1>2. Len(y) \in Nat /\ s.cap - Len(x) \in Nat /\ Len(x) \in Nat
  BY <1>1 DEF Text
<1>3. /\ n \in Nat /\ n <= Len(y) /\ n <= s.cap - Len(x)
      /\ n = Len(y) \/ n = s.cap - Len(x)
  BY <1>2, SmallerFacts
<1>4. ReadFlush(s) = [f EXCEPT !.blocked = k]
  BY DEF ReadFlush, GenFlush
<1> HIDE DEF n, x, y
<1>5. q \in Text /\ Len(q) = Len(x) + n /\ p \in Text /\ Len(p) = Len(y) - n
  BY <1>1, <1>3, MovedFacts
<1> HIDE DEF q, p
<1>6. p # <<>> => Len(q) = s.cap
  <2>1. ASSUME n = Len(y) PROVE p = <<>>
    <3>1. Len(p) = 0
      BY <1>2, <1>5, <2>1
    <3> QED
      BY <1>5, <3>1, EmptySeq DEF Text
  <2>2. ASSUME n = s.cap - Len(x) PROVE Len(q) = s.cap
    <3>1. \A i, j, c \in Nat : j = c - i => i + j = c
      OBVIOUS
    <3> QED
      BY <1>1, <1>2, <1>3, <1>5, <2>2, <3>1
  <2> QED
    BY <1>3, <2>1, <2>2
<1>7. f \in BufferRecords /\ f.out = q /\ f.pending = p /\ f.cap = s.cap
  BY <1>5 DEF Buffered, BufferRecords
<1> HIDE DEF f, k
<1>8. /\ ReadFlush(s).out = f.out /\ ReadFlush(s).pending = f.pending
      /\ ReadFlush(s).cap = f.cap
  BY <1>4, <1>7 DEF BufferRecords
<1> QED
  BY <1>6, <1>7, <1>8

LEMMA LoopFills ==
  ASSUME PipeInv, ReadLoop, got' # got \/ eof' # eof
  PROVE  eof' \/ Len(got') - Len(got) = gen.cap
<1> DEFINE f == IF Len(gen.out) >= gen.cap THEN gen ELSE ReadFlush(gen)
<1>1. /\ gen.phase = "reading" /\ ReadReturns(f)
      /\ got' = got \o f.out /\ eof' = (f.done /\ f.pending = <<>>)
  BY DEF ReadLoop
<1>2. Buffered(gen) /\ got \in Text
  BY DEF PipeInv, WriterInv
<1>3. gen.cap \in Nat /\ gen.out \in Text /\ Len(gen.out) <= gen.cap /\ Len(gen.out) \in Nat
  BY <1>2, ConcatText DEF Buffered, BufferRecords
<1>4. Buffered(f)
  BY <1>1, <1>2, ReadFlushFacts
<1>5. f.cap = gen.cap /\ (f.pending # <<>> => Len(f.out) = gen.cap)
  <2>1. CASE Len(gen.out) >= gen.cap
    BY <1>3, <2>1
  <2>2. CASE ~(Len(gen.out) >= gen.cap)
    BY <1>2, <2>2, FlushFills
  <2> QED
    BY <2>1, <2>2
<1> HIDE DEF f
<1>6. f.out \in Text /\ Len(f.out) <= gen.cap /\ f.done \in BOOLEAN
  BY <1>4, <1>5 DEF Buffered, BufferRecords
<1>7. /\ Len(got \o f.out) = Len(got) + Len(f.out)
      /\ Len(got) \in Nat /\ Len(f.out) \in Nat
  BY <1>2, <1>6, ConcatText
<1>8. eof' \/ Len(f.out) = gen.cap
  BY <1>1, <1>3, <1>5, <1>6, <1>7 DEF ReadReturns
<1> QED
  BY <1>1, <1>3, <1>7, <1>8

\* A read that returns fewer bytes than asked for is the last one: the part of
\* ShortReadEnds (module Output) about a writer.
ReadsAreFull ==
  [][(got' # got \/ eof' # eof) => eof' \/ Len(got') - Len(got) = gen.cap]_writerVars

\* lonejson__writer_generator_read fills the consumer's buffer unless the
\* producer has finished, however the calls of the producer are cut by it.
THEOREM ShortReadIsLast == WriterSpec /\ mode = "generator" => ReadsAreFull
<1> DEFINE LastOrFull == (got' # got \/ eof' # eof) => eof' \/ Len(got') - Len(got) = gen.cap
<1>1. WriterInit /\ mode = "generator" => PipeInv
  BY PipeInitHolds
<1>2. PipeInv /\ [WriterNext]_writerVars => PipeInv' /\ [LastOrFull]_writerVars
  <2>1. ASSUME PipeInv, UNCHANGED writerVars PROVE PipeInv'
    BY <2>1 DEF writerVars, PipeInv, WriterInv
  <2>2. ASSUME PipeInv, Client \/ CallStep \/ ChildTurn PROVE PipeInv' /\ LastOrFull
    BY <2>2, PipeCalls DEF WriterPipe!Produce
  <2>3. ASSUME PipeInv, NEW cap \in Capacities, ReadStart(cap) PROVE PipeInv' /\ LastOrFull
    BY <2>3, PipeStarts DEF WriterPipe!pipe
  <2>4. ASSUME PipeInv, ReadLoop PROVE PipeInv' /\ LastOrFull
    BY <2>4, PipeLoops, LoopFills
  <2>5. ASSUME PipeInv, ProducerReturns PROVE PipeInv' /\ LastOrFull
    BY <2>5, PipeCloses DEF WriterPipe!ClosePipe, WriterPipe!pipe
  <2> HIDE DEF LastOrFull
  <2> QED
    BY <2>1, <2>2, <2>3, <2>4, <2>5 DEF WriterNext, GeneratorRead
<1> QED
  BY <1>1, <1>2, PTL DEF WriterSpec, ReadsAreFull

-----------------------------------------------------------------------------
(***************************************************************************)
(* One-shot calls.                                                         *)
(***************************************************************************)

ShotText == Seq(STRING)

Ends == {"OK", "TRUNCATED", "OVERFLOW", "ALLOCATION_FAILED", "FAILED", "INVALID_ARGUMENT"}

ShotStates ==
  [job : ShotCalls, out : ShotText, needed : Nat, truncated : BOOLEAN, capacity : Nat,
   status : {"running"} \cup Ends]

\* A caller's buffer: what was handed over is in it as far as it fits, and
\* the flag tells that it did not.  A call that refuses to truncate has
\* written nothing of the piece that was too long.
FixedInv(s) ==
  LET most == s.job.room - 1 IN
  s.job.into = "buffer" /\ s.job.room > 0 =>
    /\ s.out = SubSeq(s.job.text, 1, Len(s.out))
    /\ Len(s.out) <= most /\ Len(s.out) <= s.needed
    /\ s.needed <= Len(s.job.text)
    /\ s.truncated <=> s.needed > most
    /\ s.status # "OVERFLOW" /\ s.needed <= most => Len(s.out) = s.needed
    /\ s.status # "OVERFLOW" /\ s.needed > most => Len(s.out) = most
    /\ s.truncated /\ s.job.policy = "fail" => s.status = "OVERFLOW"
    /\ s.status \in {"TRUNCATED", "OVERFLOW"} => s.truncated
    /\ s.status = "OK" => s.needed = Len(s.job.text)
    /\ s.status = "OK" /\ s.truncated => s.job.policy = "silent"

\* A growing buffer: what was handed over is in it while the call goes on,
\* with room for one more byte.
GrownInv(s) ==
  s.job.into = "owned" =>
    /\ s.capacity <= s.job.room + 1
    /\ ~s.truncated
    /\ s.out # <<>> => Len(s.out) < s.capacity
    /\ s.status \in {"running", "OK"} =>
         /\ s.needed <= Len(s.job.text)
         /\ s.out = SubSeq(s.job.text, 1, s.needed)
    /\ s.status = "OK" => s.needed = Len(s.job.text)
    /\ s.status = "OVERFLOW" => Len(s.job.text) > s.job.room \/ s.job.room = SizeMax
    /\ s.status \notin {"OK", "running"} => s.out = <<>> /\ s.capacity = 0

\* Only a caller's buffer of no size is refused, before anything is written.
RefusedInv(s) ==
  (s.job.into = "buffer" /\ s.job.room = 0) <=> s.status = "INVALID_ARGUMENT"

CallInv(s) == s \in ShotStates /\ FixedInv(s) /\ GrownInv(s) /\ RefusedInv(s)

ShotInv == shot = NoShot \/ CallInv(shot)

-----------------------------------------------------------------------------
\* The least of some numbers is one of them.
LEMMA MinExists ==
  ASSUME NEW S \in SUBSET Nat, S # {}
  PROVE  Min(S) \in S /\ \A y \in S : Min(S) <= y
<1> DEFINE R == OpToRel(<, Nat)
<1>1. \E x \in S : \A y \in S : ~(<<y, x>> \in R)
  <2>1. IsWellFoundedOn(R, Nat)
    BY NatLessThanWellFounded
  <2> HIDE DEF R
  <2> QED
    BY <2>1, WFMin
<1>2. \A x, y \in Nat : y < x => <<y, x>> \in R
  BY DEF OpToRel
<1>3. \E x \in S : \A y \in S : x <= y
  <2> HIDE DEF R
  <2>1. PICK x \in S : \A y \in S : ~(<<y, x>> \in R)
    BY <1>1
  <2>2. ASSUME NEW y \in S PROVE x <= y
    <3>1. x \in Nat /\ y \in Nat /\ ~(y < x)
      BY <1>2, <2>1
    <3> QED
      BY <3>1
  <2> QED
    BY <2>2
<1> QED
  BY <1>3 DEF Min

LEMMA MinOfTwo ==
  ASSUME NEW m \in Nat, NEW n \in Nat
  PROVE  /\ Min({m, n}) \in Nat /\ Min({m, n}) <= m /\ Min({m, n}) <= n
         /\ Min({m, n}) = m \/ Min({m, n}) = n
<1>1. {m, n} \in SUBSET Nat /\ {m, n} # {}
  OBVIOUS
<1>2. Min({m, n}) \in {m, n} /\ \A y \in {m, n} : Min({m, n}) <= y
  BY <1>1, MinExists
<1> QED
  BY <1>2

\* lonejson__buffer_reserve_grow asks for enough, and for no more than
\* max_output_bytes and the byte that ends the text.
LEMMA GrownIsEnough ==
  ASSUME NEW s, s.job.room \in Nat, NEW required \in Nat, required <= s.job.room + 1
  PROVE  /\ GrownCapacity(s, required) \in Nat
         /\ required <= GrownCapacity(s, required)
         /\ GrownCapacity(s, required) <= s.job.room + 1
<1> DEFINE first == IF s.capacity = 0 THEN FirstCapacity ELSE s.capacity
           enough == {first * 2^k : k \in 0..required} \cap required..SizeMax
           grown == IF enough = {} THEN required ELSE Min(enough)
<1>1. SizeMax \in Nat
  BY OneShotAssumption
<1>2. enough \subseteq required..SizeMax
  OBVIOUS
<1>3. GrownCapacity(s, required) = Min({grown, s.job.room + 1})
  BY DEF GrownCapacity
<1> HIDE DEF enough
<1>4. grown \in Nat /\ required <= grown
  <2>1. CASE enough = {}
    BY <2>1
  <2>2. CASE enough # {}
    <3>1. enough \in SUBSET Nat
      BY <1>1, <1>2
    <3>2. Min(enough) \in enough
      BY <2>2, <3>1, MinExists
    <3>3. Min(enough) \in Nat /\ required <= Min(enough)
      <4>1. \A c \in required..SizeMax : c \in Nat /\ required <= c
        BY <1>1
      <4> QED
        BY <1>2, <3>2, <4>1
    <3> QED
      BY <2>2, <3>3
  <2> QED
    BY <2>1, <2>2
<1> HIDE DEF grown
<1>5. s.job.room + 1 \in Nat
  OBVIOUS
<1> DEFINE room == s.job.room + 1
<1> HIDE DEF room
<1>6. /\ Min({grown, room}) \in Nat /\ Min({grown, room}) <= room
      /\ Min({grown, room}) = grown \/ Min({grown, room}) = room
  BY <1>4, <1>5, MinOfTwo DEF room
<1> QED
  BY <1>3, <1>4, <1>6 DEF room

\* A beginning of the text and the piece behind it are a longer beginning.
LEMMA PieceFollows ==
  ASSUME NEW text \in ShotText, NEW a \in Nat, NEW b \in Nat, NEW n \in Nat,
         a <= b, b <= Len(text), n <= Len(text) - b
  PROVE  /\ SubSeq(text, 1, a) \in ShotText /\ Len(SubSeq(text, 1, a)) = a
         /\ SubSeq(text, 1, b) \o SubSeq(SubSeq(text, b + 1, Len(text)), 1, n)
              = SubSeq(text, 1, b + n)
         /\ SubSeq(SubSeq(text, b + 1, Len(text)), 1, n) \in ShotText
         /\ Len(SubSeq(SubSeq(text, b + 1, Len(text)), 1, n)) = n
         /\ Len(SubSeq(text, b + 1, Len(text))) = Len(text) - b
<1> DEFINE l == SubSeq(text, b + 1, Len(text))
<1>1. Len(text) \in Nat /\ text \in Seq(STRING)
  BY DEF ShotText
<1>2. \A i \in 1..Len(text) : text[i] \in STRING
  BY <1>1
<1>3. SubSeq(text, 1, a) \in Seq(STRING) /\ Len(SubSeq(text, 1, a)) = (IF 1 <= a THEN a - 1 + 1 ELSE 0)
  <2>1. \A i \in 1..a : text[i] \in STRING
    BY <1>1, <1>2
  <2> QED
    BY <2>1, SubSeqProperties
<1>4. /\ l \in Seq(STRING)
      /\ Len(l) = (IF b + 1 <= Len(text) THEN Len(text) - (b + 1) + 1 ELSE 0)
      /\ \A i \in 1..(Len(text) - (b + 1) + 1) : l[i] = text[b + 1 + i - 1]
  <2>1. \A i \in (b + 1)..Len(text) : text[i] \in STRING
    BY <1>1, <1>2
  <2>2. b + 1 \in Int /\ Len(text) \in Int
    BY <1>1
  <2> QED
    BY <2>1, <2>2, SubSeqProperties
<1>5. Len(l) = Len(text) - b
  BY <1>1, <1>4
<1>6. SubSeq(l, 1, n) = SubSeq(text, b + 1, b + n)
  <2>1. CASE n = 0
    <3>1. SubSeq(l, 1, n) = <<>>
      BY <2>1, SubSeqEmpty
    <3>2. SubSeq(text, b + 1, b + n) = <<>>
      BY <2>1, SubSeqEmpty
    <3> QED
      BY <3>1, <3>2
  <2>2. CASE n # 0
    <3>1. /\ b + 1 \in 1..Len(text) /\ Len(text) \in 1..Len(text)
          /\ 1 \in 1..(Len(text) - (b + 1) + 1) /\ n \in 1..(Len(text) - (b + 1) + 1)
      BY <1>1, <2>2
    <3>2. SubSeq(l, 1, n) = SubSeq(text, (b + 1) + 1 - 1, (b + 1) + n - 1)
      BY <1>1, <3>1, SubSeqOfSubSeq
    <3>3. (b + 1) + 1 - 1 = b + 1 /\ (b + 1) + n - 1 = b + n
      OBVIOUS
    <3> HIDE DEF l
    <3> QED
      BY <3>2, <3>3
  <2> QED
    BY <2>1, <2>2
<1>7. SubSeq(text, 1, b) \o SubSeq(text, b + 1, b + n) = SubSeq(text, 1, b + n)
  <2>1. 1 \in 1..(Len(text) + 1) /\ b \in (1 - 1)..Len(text) /\ b + n \in b..Len(text)
    BY <1>1
  <2> QED
    BY <1>1, <2>1, ConcatAdjacentSubSeq
<1> HIDE DEF l
<1>8. SubSeq(l, 1, n) \in Seq(STRING) /\ Len(SubSeq(l, 1, n)) = (IF 1 <= n THEN n - 1 + 1 ELSE 0)
  <2>1. \A i \in 1..n : l[i] \in STRING
    BY <1>1, <1>4, <1>5
  <2> QED
    BY <2>1, SubSeqProperties
<1> QED
  BY <1>3, <1>5, <1>6, <1>7, <1>8 DEF l, ShotText

\* The beginning of a beginning.
LEMMA PieceOfPiece ==
  ASSUME NEW l \in ShotText, NEW n \in 0..Len(l), NEW k \in 0..n
  PROVE  SubSeq(SubSeq(l, 1, n), 1, k) = SubSeq(l, 1, k)
<1>1. l \in Seq(STRING) /\ Len(l) \in Nat
  BY DEF ShotText
<1>2. CASE k = 0
  BY <1>2, SubSeqEmpty
<1>3. CASE k # 0
  <2>1. /\ 1 \in 1..Len(l) /\ n \in 1..Len(l)
        /\ 1 \in 1..(n - 1 + 1) /\ k \in 1..(n - 1 + 1)
    BY <1>1, <1>3
  <2>2. SubSeq(SubSeq(l, 1, n), 1, k) = SubSeq(l, 1 + 1 - 1, 1 + k - 1)
    BY <1>1, <2>1, SubSeqOfSubSeq
  <2>3. 1 + 1 - 1 = 1 /\ 1 + k - 1 = k
    OBVIOUS
  <2> QED
    BY <2>2, <2>3
<1> QED
  BY <1>2, <1>3

\* What a step takes off the text.
IsPiece(s, piece) ==
  \E n \in 1..Len(ShotLeft(s)) : piece = SubSeq(ShotLeft(s), 1, n)

LEMMA PieceFacts ==
  ASSUME NEW s, s \in ShotStates, s.needed <= Len(s.job.text), NEW piece, IsPiece(s, piece)
  PROVE  /\ piece \in ShotText /\ Len(piece) \in Nat /\ Len(piece) > 0
         /\ s.needed + Len(piece) \in Nat /\ s.needed + Len(piece) <= Len(s.job.text)
         /\ s.job.text \in ShotText /\ Len(s.job.text) \in Nat
         /\ SubSeq(s.job.text, 1, s.needed) \in ShotText
         /\ Len(SubSeq(s.job.text, 1, s.needed)) = s.needed
         /\ SubSeq(s.job.text, 1, s.needed) \o piece
              = SubSeq(s.job.text, 1, s.needed + Len(piece))
         /\ \A k \in 0..Len(piece) :
              /\ SubSeq(s.job.text, 1, s.needed) \o SubSeq(piece, 1, k)
                   = SubSeq(s.job.text, 1, s.needed + k)
              /\ SubSeq(s.job.text, 1, s.needed + k) \in ShotText
              /\ Len(SubSeq(s.job.text, 1, s.needed + k)) = s.needed + k
<1> DEFINE text == s.job.text
           l == SubSeq(text, s.needed + 1, Len(text))
<1>1. text \in ShotText /\ s.needed \in Nat /\ Len(text) \in Nat
  BY DEF ShotStates, ShotCalls, ShotText
<1>2. PICK n \in 1..Len(l) : piece = SubSeq(l, 1, n)
  BY DEF IsPiece, ShotLeft
<1>3. s.needed <= Len(text)
  OBVIOUS
<1> DEFINE needed == s.needed
<1> HIDE DEF text, needed
<1>4. needed \in Nat /\ needed <= Len(text) /\ text \in ShotText /\ Len(text) \in Nat
  BY <1>1, <1>3 DEF needed
<1>5. ASSUME NEW m \in Nat, m <= Len(text) - needed
      PROVE  /\ SubSeq(text, 1, needed) \in ShotText /\ Len(SubSeq(text, 1, needed)) = needed
             /\ SubSeq(text, 1, needed) \o SubSeq(SubSeq(text, needed + 1, Len(text)), 1, m)
                  = SubSeq(text, 1, needed + m)
             /\ SubSeq(SubSeq(text, needed + 1, Len(text)), 1, m) \in ShotText
             /\ Len(SubSeq(SubSeq(text, needed + 1, Len(text)), 1, m)) = m
             /\ Len(SubSeq(text, needed + 1, Len(text))) = Len(text) - needed
  <2>1. needed <= needed
    BY <1>4
  <2> QED
    BY <1>4, <1>5, <2>1, PieceFollows
<1>6. l = SubSeq(text, needed + 1, Len(text))
  BY DEF needed
<1>7. 0 \in Nat /\ 0 <= Len(text) - needed
  BY <1>4
<1>8. Len(l) = Len(text) - needed /\ SubSeq(text, 1, needed) \in ShotText
      /\ Len(SubSeq(text, 1, needed)) = needed
  BY <1>5, <1>6, <1>7
<1> HIDE DEF l
<1>9. n \in Nat /\ n > 0 /\ n <= Len(text) - needed /\ needed + n \in Nat
      /\ needed + n <= Len(text)
  BY <1>2, <1>4, <1>8
<1>10. /\ piece \in ShotText /\ Len(piece) = n
       /\ SubSeq(text, 1, needed) \o piece = SubSeq(text, 1, needed + n)
  BY <1>2, <1>5, <1>6, <1>9
<1>11. l \in ShotText
  <2>1. \A i \in (needed + 1)..Len(text) : text[i] \in STRING
    BY <1>4 DEF ShotText
  <2>2. needed + 1 \in Int /\ Len(text) \in Int
    BY <1>4
  <2> QED
    BY <1>6, <2>1, <2>2, SubSeqProperties DEF ShotText
<1>12. ASSUME NEW k \in 0..n
       PROVE  /\ SubSeq(text, 1, needed) \o SubSeq(piece, 1, k) = SubSeq(text, 1, needed + k)
              /\ SubSeq(text, 1, needed + k) \in ShotText
              /\ Len(SubSeq(text, 1, needed + k)) = needed + k
  <2>1. k \in Nat /\ k <= Len(text) - needed /\ n \in 0..Len(l) /\ k \in 0..n
    BY <1>4, <1>8, <1>9
  <2>2. SubSeq(piece, 1, k) = SubSeq(l, 1, k)
    BY <1>2, <1>11, <2>1, PieceOfPiece
  <2>3. SubSeq(text, 1, needed) \o SubSeq(l, 1, k) = SubSeq(text, 1, needed + k)
    BY <1>5, <1>6, <2>1
  <2> DEFINE e == needed + k
  <2>4. \A i \in 1..e : text[i] \in STRING
    BY <1>4, <2>1 DEF ShotText
  <2>5. 1 \in Int /\ e \in Int /\ e \in Nat
    BY <1>4, <2>1
  <2> HIDE DEF e
  <2>6. SubSeq(text, 1, e) \in Seq(STRING) /\ Len(SubSeq(text, 1, e)) = (IF 1 <= e THEN e - 1 + 1 ELSE 0)
    BY <2>4, <2>5, SubSeqProperties
  <2>7. SubSeq(text, 1, e) \in ShotText /\ Len(SubSeq(text, 1, e)) = e
    BY <2>5, <2>6 DEF ShotText
  <2> QED
    BY <2>2, <2>3, <2>7 DEF e
<1> QED
  BY <1>4, <1>8, <1>9, <1>10, <1>12 DEF text, needed

-----------------------------------------------------------------------------
LEMMA JobFacts ==
  ASSUME NEW j \in ShotCalls
  PROVE  /\ j.text \in ShotText /\ Len(j.text) \in Nat /\ j.room \in Nat
         /\ j.into \in {"buffer", "owned"} /\ (j.into = "owned" => j.room > 0)
         /\ (j.into = "buffer" => j.policy \in {"fail", "truncate", "silent"})
BY OneShotAssumption DEF ShotCalls, ShotText

LEMMA StateFacts ==
  ASSUME NEW s \in ShotStates
  PROVE  /\ s.job \in ShotCalls /\ s.out \in ShotText /\ Len(s.out) \in Nat
         /\ s.needed \in Nat /\ s.capacity \in Nat /\ s.truncated \in BOOLEAN
BY DEF ShotStates, ShotText

LEMMA StartInv ==
  ASSUME NEW j \in ShotCalls
  PROVE  CallInv(ShotStart(j))
<1> DEFINE s == ShotStart(j)
<1>1. /\ s.job = j /\ s.out = <<>> /\ s.needed = 0 /\ s.truncated = FALSE /\ s.capacity = 0
      /\ s.status = (IF j.into = "buffer" /\ j.room = 0 THEN "INVALID_ARGUMENT" ELSE "running")
      /\ s \in ShotStates
  BY DEF ShotStart, ShotStates, Ends, ShotText
<1>2. /\ j.text \in ShotText /\ Len(j.text) \in Nat /\ j.room \in Nat
      /\ j.into \in {"buffer", "owned"} /\ (j.into = "owned" => j.room > 0)
  BY JobFacts
<1>3. SubSeq(j.text, 1, 0) = <<>> /\ Len(<<>>) = 0
  BY SubSeqEmpty
<1> HIDE DEF s
<1>4. FixedInv(s)
  BY <1>1, <1>2, <1>3 DEF FixedInv
<1>5. GrownInv(s)
  BY <1>1, <1>2, <1>3 DEF GrownInv
<1>6. RefusedInv(s)
  BY <1>1 DEF RefusedInv
<1> QED
  BY <1>1, <1>4, <1>5, <1>6 DEF CallInv, s

\* lonejson__sink_buffer.
LEMMA TruncatedKeeps ==
  ASSUME NEW s, CallInv(s), s.status = "running", s.job.into = "buffer",
         s.job.policy \in {"truncate", "silent"}, NEW piece, IsPiece(s, piece),
         NEW u \in PutTruncated(s, piece)
  PROVE  CallInv(u)
<1> DEFINE n == Len(piece)
           room == Writable(s)
           k == Copied(s, piece)
           most == s.job.room - 1
           text == s.job.text
           t == [s EXCEPT !.out = @ \o SubSeq(piece, 1, k), !.needed = @ + n,
                          !.truncated = @ \/ n > room]
<1>1. s \in ShotStates /\ FixedInv(s) /\ RefusedInv(s)
  BY DEF CallInv
<1>2. /\ s.out \in ShotText /\ Len(s.out) \in Nat /\ s.needed \in Nat /\ s.truncated \in BOOLEAN
      /\ s.job.room \in Nat /\ Len(text) \in Nat
  BY <1>1, StateFacts, JobFacts
<1>3. s.job.room > 0 /\ most \in Nat
  BY <1>1, <1>2 DEF RefusedInv
<1>4. /\ s.out = SubSeq(text, 1, Len(s.out)) /\ Len(s.out) <= most /\ Len(s.out) <= s.needed
      /\ s.needed <= Len(text) /\ (s.truncated <=> s.needed > most)
      /\ (s.needed <= most => Len(s.out) = s.needed) /\ (s.needed > most => Len(s.out) = most)
  BY <1>1, <1>3 DEF FixedInv
<1>5. /\ piece \in ShotText /\ n \in Nat /\ n > 0 /\ s.needed + n <= Len(text)
      /\ \A c \in 0..n : /\ SubSeq(text, 1, s.needed) \o SubSeq(piece, 1, c)
                               = SubSeq(text, 1, s.needed + c)
                         /\ SubSeq(text, 1, s.needed + c) \in ShotText
                         /\ Len(SubSeq(text, 1, s.needed + c)) = s.needed + c
  BY <1>1, <1>4, PieceFacts
<1>6. room \in Nat /\ room = most - Len(s.out)
  <2>1. \A a, b \in Int : a - b - 1 = (a - 1) - b
    OBVIOUS
  <2>2. room = most - Len(s.out)
    BY <1>2, <2>1 DEF Writable
  <2>3. \A a, b \in Nat : b <= a => a - b \in Nat
    OBVIOUS
  <2>4. most - Len(s.out) \in Nat
    BY <1>2, <1>3, <1>4, <2>3
  <2> QED
    BY <2>2, <2>4
<1>7. /\ k \in 0..n /\ (n > room => k = room) /\ (~(n > room) => k = n)
  <2> HIDE DEF n, room
  <2>1. k = Min({n, room})
    BY DEF Copied, n, room
  <2>2. k \in Nat /\ k <= n /\ k <= room /\ (k = n \/ k = room)
    BY <1>5, <1>6, <2>1, MinOfTwo
  <2> QED
    BY <1>5, <1>6, <2>2
<1> DEFINE out == s.out \o SubSeq(piece, 1, k)
<1>8. /\ out \in ShotText /\ out = SubSeq(text, 1, Len(out))
      /\ Len(out) <= most /\ Len(out) <= s.needed + n
      /\ (s.needed + n <= most => Len(out) = s.needed + n)
      /\ (s.needed + n > most => Len(out) = most)
      /\ ((s.truncated \/ n > room) <=> s.needed + n > most)
  <2> HIDE DEF n, room, k, most, text
  <2>1. CASE s.needed <= most
    <3>1. Len(s.out) = s.needed /\ s.out = SubSeq(text, 1, s.needed) /\ room = most - s.needed
      BY <1>4, <1>6, <2>1
    <3>2. /\ out = SubSeq(text, 1, s.needed + k) /\ out \in ShotText /\ Len(out) = s.needed + k
      BY <1>5, <1>7, <3>1
    <3> HIDE DEF out
    <3>3. /\ Len(out) <= most /\ Len(out) <= s.needed + n
          /\ (s.needed + n <= most => Len(out) = s.needed + n)
          /\ (s.needed + n > most => Len(out) = most)
          /\ (n > room <=> s.needed + n > most)
      <4>1. \A a, b, c, d, x \in Nat :
              a <= b /\ (c > d => x = d) /\ (~(c > d) => x = c) /\ d = b - a =>
                /\ a + x <= b /\ a + x <= a + c
                /\ (a + c <= b => a + x = a + c) /\ (a + c > b => a + x = b)
                /\ (c > d <=> a + c > b)
        OBVIOUS
      <4>2. k \in Nat
        BY <1>5, <1>7
      <4>3. /\ s.needed \in Nat /\ most \in Nat /\ n \in Nat /\ room \in Nat
            /\ s.needed <= most /\ (n > room => k = room) /\ (~(n > room) => k = n)
            /\ room = most - s.needed
        BY <1>2, <1>3, <1>5, <1>6, <1>7, <2>1, <3>1
      <4>4. /\ s.needed + k <= most /\ s.needed + k <= s.needed + n
            /\ (s.needed + n <= most => s.needed + k = s.needed + n)
            /\ (s.needed + n > most => s.needed + k = most)
            /\ (n > room <=> s.needed + n > most)
        BY <4>1, <4>2, <4>3
      <4> QED
        BY <3>2, <4>4
    <3>4. ~s.truncated
      BY <1>2, <1>3, <1>4, <2>1
    <3> QED
      BY <3>2, <3>3, <3>4
  <2>2. CASE ~(s.needed <= most)
    <3>1. s.needed > most /\ Len(s.out) = most /\ room = 0 /\ n > room /\ k = 0 /\ s.truncated
      BY <1>2, <1>3, <1>4, <1>5, <1>6, <1>7, <2>2
    <3>2. SubSeq(piece, 1, k) = <<>>
      BY <3>1, SubSeqEmpty
    <3>3. out = s.out
      BY <1>2, <3>2, ConcatEmptySeq DEF ShotText
    <3> HIDE DEF out
    <3> QED
      BY <1>2, <1>3, <1>4, <1>5, <3>1, <3>3
  <2> QED
    BY <2>1, <2>2
<1>9. /\ t \in ShotStates /\ t.job = s.job /\ t.out = out /\ t.needed = s.needed + n
      /\ t.truncated = (s.truncated \/ n > room) /\ t.status = "running"
  <2>1. s.needed + n \in Nat /\ (s.truncated \/ n > room) \in BOOLEAN
    BY <1>2, <1>5
  <2> HIDE DEF n, room, k
  <2> QED
    BY <1>1, <1>8, <2>1 DEF ShotStates
<1>10. u = t \/ (u = ShotEnds(t, "TRUNCATED") /\ n > room /\ s.job.policy = "truncate")
  BY DEF PutTruncated
<1> HIDE DEF t, out, n, room, k
<1>11. CASE u = t
  BY <1>1, <1>2, <1>3, <1>5, <1>8, <1>9, <1>11
    DEF CallInv, FixedInv, GrownInv, RefusedInv
<1>12. CASE u = ShotEnds(t, "TRUNCATED") /\ n > room /\ s.job.policy = "truncate"
  <2>1. /\ u \in ShotStates /\ u.job = t.job /\ u.out = t.out /\ u.needed = t.needed
        /\ u.truncated = t.truncated /\ u.status = "TRUNCATED"
    BY <1>9, <1>12 DEF ShotEnds, ShotStates, Ends
  <2> QED
    BY <1>1, <1>2, <1>3, <1>5, <1>8, <1>9, <1>12, <2>1
      DEF CallInv, FixedInv, GrownInv, RefusedInv
<1> QED
  BY <1>10, <1>11, <1>12

\* lonejson__sink_buffer_exact.
LEMMA ExactKeeps ==
  ASSUME NEW s, CallInv(s), s.status = "running", s.job.into = "buffer",
         s.job.policy = "fail", NEW piece, IsPiece(s, piece), NEW u \in PutExact(s, piece)
  PROVE  CallInv(u)
<1> DEFINE n == Len(piece)
           room == Writable(s)
           most == s.job.room - 1
           text == s.job.text
           t == [s EXCEPT !.needed = @ + n]
<1>1. s \in ShotStates /\ FixedInv(s) /\ RefusedInv(s)
  BY DEF CallInv
<1>2. /\ s.out \in ShotText /\ Len(s.out) \in Nat /\ s.needed \in Nat
      /\ s.job.room \in Nat /\ Len(text) \in Nat
  BY <1>1, StateFacts, JobFacts
<1>3. s.job.room > 0 /\ most \in Nat
  BY <1>1, <1>2 DEF RefusedInv
<1>4. ~s.truncated
  BY <1>1, <1>3 DEF FixedInv
<1>5. ~(s.needed > most)
  BY <1>1, <1>3, <1>4 DEF FixedInv
<1>6. /\ s.needed <= most /\ s.needed <= Len(text) /\ Len(s.out) = s.needed
      /\ s.out = SubSeq(text, 1, s.needed)
  <2>1. s.needed <= most
    BY <1>2, <1>3, <1>5
  <2> QED
    BY <1>1, <1>3, <2>1 DEF FixedInv
<1>7. /\ piece \in ShotText /\ n \in Nat /\ n > 0 /\ s.needed + n <= Len(text)
      /\ s.needed + n \in Nat
      /\ \A c \in 0..n : /\ SubSeq(text, 1, s.needed) \o SubSeq(piece, 1, c)
                               = SubSeq(text, 1, s.needed + c)
                         /\ SubSeq(text, 1, s.needed + c) \in ShotText
                         /\ Len(SubSeq(text, 1, s.needed + c)) = s.needed + c
      /\ SubSeq(text, 1, s.needed) \o piece = SubSeq(text, 1, s.needed + n)
  BY <1>1, <1>6, PieceFacts
<1>8. room = most - s.needed /\ (n > room <=> s.needed + n > most)
  <2>1. \A a, b, c \in Nat : /\ a - b - 1 = (a - 1) - b
                             /\ c > (a - 1) - b <=> b + c > a - 1
    OBVIOUS
  <2> HIDE DEF n
  <2> QED
    BY <1>2, <1>6, <1>7, <2>1 DEF Writable
<1>9. /\ t \in ShotStates /\ t.job = s.job /\ t.out = s.out /\ t.needed = s.needed + n
      /\ t.truncated = s.truncated /\ t.status = "running"
  <2> HIDE DEF n
  <2> QED
    BY <1>1, <1>7 DEF ShotStates
<1>10. \/ n > room /\ u = ShotEnds([t EXCEPT !.truncated = TRUE], "OVERFLOW")
       \/ ~(n > room) /\ u = [t EXCEPT !.out = @ \o piece]
  BY DEF PutExact
<1> HIDE DEF t, n, room
<1>11. CASE n > room /\ u = ShotEnds([t EXCEPT !.truncated = TRUE], "OVERFLOW")
  <2>1. /\ u \in ShotStates /\ u.job = s.job /\ u.out = s.out /\ u.needed = s.needed + n
        /\ u.truncated = TRUE /\ u.status = "OVERFLOW"
    BY <1>9, <1>11 DEF ShotEnds, ShotStates, Ends
  <2>2. s.needed + n > most /\ Len(s.out) <= s.needed + n
    BY <1>2, <1>6, <1>7, <1>8, <1>11
  <2> HIDE DEF text
  <2>3. FixedInv(u)
    BY <1>2, <1>3, <1>6, <1>7, <2>1, <2>2 DEF FixedInv, text
  <2> QED
    BY <1>1, <1>3, <2>1, <2>3 DEF CallInv, GrownInv, RefusedInv
<1>12. CASE ~(n > room) /\ u = [t EXCEPT !.out = @ \o piece]
  <2> DEFINE out == s.out \o piece
  <2>1. n \in 0..n
    BY <1>7
  <2>2. out = SubSeq(text, 1, s.needed + n) /\ out \in ShotText /\ Len(out) = s.needed + n
    BY <1>6, <1>7, <2>1
  <2>3. /\ u \in ShotStates /\ u.job = s.job /\ u.out = out /\ u.needed = s.needed + n
        /\ u.truncated = s.truncated /\ u.status = "running"
    BY <1>9, <1>12, <2>2 DEF ShotStates
  <2>4. s.needed + n <= most /\ ~(s.needed + n > most)
    BY <1>2, <1>3, <1>7, <1>8, <1>12
  <2> DEFINE sum == s.needed + n
  <2>5. sum <= sum
    BY <1>7
  <2> HIDE DEF out, text, sum
  <2>6. /\ u.out = SubSeq(u.job.text, 1, Len(u.out)) /\ Len(u.out) = u.needed
        /\ u.needed <= u.job.room - 1 /\ u.needed <= Len(u.job.text)
        /\ ~(u.needed > u.job.room - 1) /\ u.needed <= u.needed /\ ~u.truncated
    BY <1>4, <1>7, <2>2, <2>3, <2>4, <2>5 DEF text, sum
  <2>7. FixedInv(u)
    BY <2>3, <2>6 DEF FixedInv
  <2> QED
    BY <1>1, <1>3, <2>3, <2>7 DEF CallInv, GrownInv, RefusedInv
<1> QED
  BY <1>10, <1>11, <1>12

\* A growing buffer that is freed.
LEMMA FreedKeeps ==
  ASSUME NEW s, CallInv(s), s.job.into = "owned",
         NEW status \in {"OVERFLOW", "ALLOCATION_FAILED", "FAILED"},
         status = "OVERFLOW" => Len(s.job.text) > s.job.room \/ s.job.room = SizeMax
  PROVE  CallInv(ShotFreed(s, status))
<1> DEFINE u == ShotFreed(s, status)
<1>1. s \in ShotStates /\ GrownInv(s) /\ s.job.room \in Nat
  BY StateFacts, JobFacts DEF CallInv
<1>2. <<>> \in ShotText /\ 0 \in Nat
  BY DEF ShotText
<1>3. /\ u \in ShotStates /\ u.job = s.job /\ u.out = <<>> /\ u.capacity = 0
      /\ u.truncated = s.truncated /\ u.status = status
  BY <1>1, <1>2 DEF ShotFreed, ShotEnds, ShotStates, Ends
<1> HIDE DEF u
<1>4. FixedInv(u) /\ RefusedInv(u)
  BY <1>3 DEF FixedInv, RefusedInv
<1>5. GrownInv(u)
  BY <1>1, <1>3 DEF GrownInv
<1> QED
  BY <1>3, <1>4, <1>5 DEF CallInv, u

\* lonejson__sink_grow.
LEMMA GrowKeeps ==
  ASSUME NEW s, CallInv(s), s.status = "running", s.job.into = "owned",
         NEW piece, IsPiece(s, piece), NEW u \in PutGrown(s, piece)
  PROVE  CallInv(u)
<1> DEFINE n == Len(piece)
           text == s.job.text
           required == Len(s.out) + n + 1
           t == [s EXCEPT !.out = @ \o piece, !.needed = @ + n]
<1>1. s \in ShotStates /\ GrownInv(s)
  BY DEF CallInv
<1>2. /\ Len(s.out) \in Nat /\ s.needed \in Nat /\ s.capacity \in Nat
      /\ s.job.room \in Nat /\ Len(text) \in Nat
  BY <1>1, StateFacts, JobFacts
<1>3. /\ s.capacity <= s.job.room + 1 /\ s.needed <= Len(text) /\ ~s.truncated
      /\ s.out = SubSeq(text, 1, s.needed)
  BY <1>1 DEF GrownInv
<1>4. /\ n \in Nat /\ n > 0 /\ s.needed + n <= Len(text) /\ s.needed + n \in Nat
      /\ Len(SubSeq(text, 1, s.needed)) = s.needed
      /\ \A c \in 0..n : /\ SubSeq(text, 1, s.needed + c) \in ShotText
                         /\ Len(SubSeq(text, 1, s.needed + c)) = s.needed + c
      /\ SubSeq(text, 1, s.needed) \o piece = SubSeq(text, 1, s.needed + n)
  BY <1>1, <1>3, PieceFacts
<1> DEFINE out == s.out \o piece
<1>5. /\ out = SubSeq(text, 1, s.needed + n) /\ out \in ShotText /\ Len(out) = s.needed + n
      /\ Len(s.out) = s.needed
  <2>1. n \in 0..n
    BY <1>4
  <2> QED
    BY <1>3, <1>4, <2>1
<1>6. required \in Nat /\ required = s.needed + n + 1 /\ required - 1 = s.needed + n
  BY <1>2, <1>4, <1>5
<1> DEFINE refused == required - 1 > s.job.room \/ (required > s.capacity /\ s.job.room = SizeMax)
<1>7. \/ refused /\ u = ShotFreed(s, "OVERFLOW")
      \/ ~refused /\ required <= s.capacity /\ u = t
      \/ ~refused /\ ~(required <= s.capacity)
           /\ u = [t EXCEPT !.capacity = GrownCapacity(s, required)]
      \/ u = ShotFreed(s, "ALLOCATION_FAILED")
  BY DEF PutGrown
<1>8. /\ t \in ShotStates /\ t.job = s.job /\ t.out = out /\ t.needed = s.needed + n
      /\ t.truncated = s.truncated /\ t.capacity = s.capacity /\ t.status = "running"
  <2> HIDE DEF n
  <2> QED
    BY <1>1, <1>4, <1>5 DEF ShotStates
<1>9. CASE refused /\ u = ShotFreed(s, "OVERFLOW")
  <2>1. s.needed + n > s.job.room \/ s.job.room = SizeMax
    <3> HIDE DEF required
    <3> QED
      BY <1>6, <1>9
  <2>2. Len(text) > s.job.room \/ s.job.room = SizeMax
    <3> DEFINE sum == s.needed + n
    <3>1. sum \in Nat /\ sum <= Len(text) /\ (sum > s.job.room \/ s.job.room = SizeMax)
      BY <1>4, <2>1
    <3> HIDE DEF sum
    <3> QED
      BY <1>2, <3>1
  <2> QED
    BY <1>9, <2>2, FreedKeeps
<1>10. CASE u = ShotFreed(s, "ALLOCATION_FAILED")
  BY <1>10, FreedKeeps
<1>11. ASSUME NEW c \in Nat, required <= c, c <= s.job.room + 1,
              u \in ShotStates, u.job = s.job, u.out = out, u.needed = s.needed + n,
              u.truncated = s.truncated, u.capacity = c, u.status = "running"
       PROVE  CallInv(u)
  <2>1. Len(out) < c
    BY <1>2, <1>4, <1>5, <1>6, <1>11
  <2> HIDE DEF out, n, required, text
  <2>2. GrownInv(u)
    BY <1>3, <1>4, <1>5, <1>11, <2>1 DEF GrownInv, text
  <2>3. FixedInv(u) /\ RefusedInv(u)
    BY <1>11 DEF FixedInv, RefusedInv
  <2> QED
    BY <1>11, <2>2, <2>3 DEF CallInv
<1>12. CASE ~refused /\ required <= s.capacity /\ u = t
  <2> HIDE DEF t, out, n, required, refused
  <2> QED
    BY <1>2, <1>3, <1>8, <1>11, <1>12
<1>13. CASE ~refused /\ ~(required <= s.capacity)
              /\ u = [t EXCEPT !.capacity = GrownCapacity(s, required)]
  <2> DEFINE c == GrownCapacity(s, required)
  <2>1. required <= s.job.room + 1
    <3>1. ~(required - 1 > s.job.room)
      BY <1>13
    <3> HIDE DEF required
    <3> QED
      BY <1>2, <1>6, <3>1
  <2> HIDE DEF t, out, n, required, refused
  <2>2. c \in Nat /\ required <= c /\ c <= s.job.room + 1
    BY <1>2, <1>6, <2>1, GrownIsEnough
  <2> HIDE DEF c
  <2>3. /\ u \in ShotStates /\ u.job = s.job /\ u.out = out /\ u.needed = s.needed + n
        /\ u.truncated = s.truncated /\ u.capacity = c /\ u.status = "running"
    BY <1>8, <1>13, <2>2 DEF ShotStates, c
  <2> QED
    BY <1>11, <2>2, <2>3
<1> QED
  BY <1>7, <1>9, <1>10, <1>12, <1>13

-----------------------------------------------------------------------------
\* A call that ends as it stands.
LEMMA EndsKeep ==
  ASSUME NEW s, CallInv(s), s.status = "running", NEW status \in {"OK", "TRUNCATED", "FAILED"},
         status = "OK" => s.needed = Len(s.job.text)
                          /\ ~(s.truncated /\ s.job.policy = "truncate"),
         status = "TRUNCATED" => s.truncated,
         s.job.into = "owned" => status = "OK"
  PROVE  CallInv(ShotEnds(s, status))
<1> DEFINE u == ShotEnds(s, status)
<1>1. s \in ShotStates /\ FixedInv(s) /\ GrownInv(s) /\ RefusedInv(s)
  BY DEF CallInv
<1>2. /\ u \in ShotStates /\ u.job = s.job /\ u.out = s.out /\ u.needed = s.needed
      /\ u.capacity = s.capacity /\ u.truncated = s.truncated /\ u.status = status
  BY <1>1 DEF ShotEnds, ShotStates, Ends
<1>3. s.job.into = "buffer" => s.job.policy \in {"fail", "truncate", "silent"}
  BY <1>1, StateFacts, JobFacts
<1> HIDE DEF u
<1>4. FixedInv(u)
  BY <1>1, <1>2, <1>3 DEF FixedInv
<1>5. GrownInv(u)
  BY <1>1, <1>2 DEF GrownInv
<1>6. RefusedInv(u)
  BY <1>1, <1>2 DEF RefusedInv
<1> QED
  BY <1>2, <1>4, <1>5, <1>6 DEF CallInv, u

LEMMA PutKeeps ==
  ASSUME CallInv(shot), ShotPut
  PROVE  CallInv(shot')
<1>1. shot \in ShotStates /\ shot.status = "running"
  BY DEF CallInv, ShotPut
<1>2. PICK piece : IsPiece(shot, piece) /\ shot' \in ShotPuts(shot, piece)
  BY DEF ShotPut, IsPiece
<1>3. /\ shot.job.into \in {"buffer", "owned"}
      /\ shot.job.into = "buffer" => shot.job.policy \in {"fail", "truncate", "silent"}
  BY <1>1, StateFacts, JobFacts
<1>4. CASE shot.job.into = "owned"
  <2>1. shot' \in PutGrown(shot, piece)
    BY <1>2, <1>4 DEF ShotPuts
  <2> QED
    BY <1>1, <1>2, <1>4, <2>1, GrowKeeps
<1>5. CASE shot.job.into = "buffer" /\ shot.job.policy = "fail"
  <2>1. shot' \in PutExact(shot, piece)
    BY <1>2, <1>5 DEF ShotPuts
  <2> QED
    BY <1>1, <1>2, <1>5, <2>1, ExactKeeps
<1>6. CASE shot.job.into = "buffer" /\ shot.job.policy # "fail"
  <2>1. shot' \in PutTruncated(shot, piece)
    BY <1>2, <1>6 DEF ShotPuts
  <2> QED
    BY <1>1, <1>2, <1>3, <1>6, <2>1, TruncatedKeeps
<1> QED
  BY <1>3, <1>4, <1>5, <1>6

LEMMA FailsKeeps ==
  ASSUME CallInv(shot), ShotFails
  PROVE  CallInv(shot')
<1>1. shot.status = "running" /\ shot.job.into \in {"buffer", "owned"}
  BY StateFacts, JobFacts DEF CallInv, ShotFails
<1>2. CASE shot.job.into = "owned"
  <2>1. shot' = ShotFreed(shot, "FAILED")
    BY <1>2 DEF ShotFails
  <2> QED
    BY <1>2, <2>1, FreedKeeps
<1>3. CASE shot.job.into # "owned"
  <2>1. shot' = ShotEnds(shot, "FAILED")
    BY <1>3 DEF ShotFails
  <2> QED
    BY <1>1, <1>3, <2>1, EndsKeep
<1> QED
  BY <1>2, <1>3

\* Nothing is left of the text when all of it was handed over.
LEMMA NothingLeft ==
  ASSUME NEW s \in ShotStates, s.needed <= Len(s.job.text), ShotLeft(s) = <<>>
  PROVE  s.needed = Len(s.job.text)
<1> DEFINE text == s.job.text
           needed == s.needed
<1>1. text \in Seq(STRING) /\ needed \in Nat /\ Len(text) \in Nat /\ needed <= Len(text)
  BY StateFacts, JobFacts DEF ShotText
<1>2. SubSeq(text, needed + 1, Len(text)) = <<>>
  BY DEF ShotLeft
<1> HIDE DEF text, needed
<1>3. \A i \in (needed + 1)..Len(text) : text[i] \in STRING
  BY <1>1
<1>4. needed + 1 \in Int /\ Len(text) \in Int
  BY <1>1
<1>5. Len(SubSeq(text, needed + 1, Len(text)))
        = (IF needed + 1 <= Len(text) THEN Len(text) - (needed + 1) + 1 ELSE 0)
  BY <1>3, <1>4, SubSeqProperties
<1>6. Len(SubSeq(text, needed + 1, Len(text))) = 0
  <2> DEFINE left == SubSeq(text, needed + 1, Len(text))
  <2>1. left = <<>>
    BY <1>2
  <2> HIDE DEF left
  <2>2. Len(left) = 0
    BY <2>1
  <2> QED
    BY <2>2 DEF left
<1>7. needed = Len(text)
  BY <1>1, <1>5, <1>6
<1> QED
  BY <1>7 DEF text, needed

LEMMA ReturnsKeeps ==
  ASSUME CallInv(shot), ShotReturns
  PROVE  CallInv(shot')
<1>1. shot \in ShotStates /\ shot.status = "running" /\ ShotLeft(shot) = <<>>
  BY DEF CallInv, ShotReturns
<1>2. FixedInv(shot) /\ GrownInv(shot) /\ RefusedInv(shot)
  BY DEF CallInv
<1>3. shot.job.into \in {"buffer", "owned"} /\ shot.job.room \in Nat
  BY <1>1, StateFacts, JobFacts
<1>4. shot.needed <= Len(shot.job.text)
  <2>1. CASE shot.job.into = "owned"
    BY <1>1, <1>2, <2>1 DEF GrownInv
  <2>2. CASE shot.job.into = "buffer"
    <3>1. shot.job.room > 0
      BY <1>1, <1>2, <1>3, <2>2 DEF RefusedInv
    <3> QED
      BY <1>2, <2>2, <3>1 DEF FixedInv
  <2> QED
    BY <1>3, <2>1, <2>2
<1>5. shot.needed = Len(shot.job.text)
  BY <1>1, <1>4, NothingLeft
<1>6. shot.job.into = "owned" => ~shot.truncated
  BY <1>2 DEF GrownInv
<1>7. CASE shot.truncated /\ shot.job.policy = "truncate"
  <2>1. shot' = ShotEnds(shot, "TRUNCATED")
    BY <1>7 DEF ShotReturns
  <2> QED
    BY <1>1, <1>6, <1>7, <2>1, EndsKeep
<1>8. CASE ~(shot.truncated /\ shot.job.policy = "truncate")
  <2>1. shot' = ShotEnds(shot, "OK")
    BY <1>8 DEF ShotReturns
  <2> QED
    BY <1>1, <1>5, <1>8, <2>1, EndsKeep
<1> QED
  BY <1>7, <1>8

LEMMA InvExact ==
  ASSUME ShotInv
  PROVE  BufferExact
<1>1. CASE shot = NoShot
  BY <1>1 DEF NoShot, BufferExact
<1>2. CASE CallInv(shot)
  <2> DEFINE text == shot.job.text
             most == shot.job.room - 1
  <2>1. /\ shot \in ShotStates /\ FixedInv(shot) /\ GrownInv(shot)
        /\ shot.job \in ShotCalls /\ shot.needed \in Nat /\ shot.out \in ShotText
        /\ Len(text) \in Nat /\ shot.job.room \in Nat /\ text \in ShotText
    BY <1>2, StateFacts, JobFacts DEF CallInv
  <2>2. ASSUME shot.job.into = "buffer", shot.job.room > 0 PROVE FixedExact
    <3>1. most \in Nat
      BY <2>1, <2>2
    <3>2. /\ shot.out = SubSeq(text, 1, Len(shot.out)) /\ Len(shot.out) <= most
          /\ shot.needed <= Len(text)
          /\ (shot.status # "OVERFLOW" /\ shot.needed <= most => Len(shot.out) = shot.needed)
          /\ (shot.status # "OVERFLOW" /\ shot.needed > most => Len(shot.out) = most)
          /\ (shot.status = "OK" => shot.needed = Len(text))
      BY <2>1, <2>2 DEF FixedInv
    <3>3. shot.status \in {"TRUNCATED", "OVERFLOW"} => shot.needed > most
      BY <2>1, <2>2 DEF FixedInv
    <3>4. shot.status = "OK" /\ shot.needed > most => shot.job.policy = "silent"
      BY <2>1, <2>2 DEF FixedInv
    <3> HIDE DEF text, most
    <3>5. shot.status \in {"TRUNCATED", "OVERFLOW"} => most < Len(text) /\ most < shot.needed
      BY <2>1, <3>1, <3>2, <3>3
    <3>6. shot.status \in {"OK", "TRUNCATED"} => Len(shot.out) = Min({Len(text), most})
      <4> DEFINE l == Len(text)
      <4>1. l \in Nat
        BY <2>1
      <4> HIDE DEF l
      <4>2. /\ Min({l, most}) \in Nat /\ Min({l, most}) <= l /\ Min({l, most}) <= most
            /\ Min({l, most}) = l \/ Min({l, most}) = most
        BY <3>1, <4>1, MinOfTwo
      <4>3. CASE shot.status = "OK"
        <5>1. /\ l <= most => Len(shot.out) = l
              /\ l > most => Len(shot.out) = most
          BY <3>2, <4>3 DEF l
        <5> QED
          BY <3>1, <4>1, <4>2, <5>1 DEF l
      <4>4. CASE shot.status = "TRUNCATED"
        <5>1. Len(shot.out) = most /\ most < l
          BY <3>2, <3>3, <3>5, <4>4 DEF l
        <5> QED
          BY <3>1, <4>1, <4>2, <5>1 DEF l
      <4> QED
        BY <4>3, <4>4
    <3>7. shot.status = "OK" /\ Len(text) > most => shot.job.policy = "silent"
      BY <3>2, <3>4
    <3> QED
      BY <2>2, <3>2, <3>5, <3>6, <3>7 DEF FixedExact, text, most
  <2>3. ASSUME ~(shot.job.into = "buffer" /\ shot.job.room > 0) PROVE FixedExact
    BY <2>3 DEF FixedExact
  <2>4. GrownExact
    <3>1. SubSeq(text, 1, Len(text)) = text
      BY <2>1, SubSeqFull DEF ShotText
    <3> QED
      BY <2>1, <3>1 DEF GrownInv, GrownExact
  <2> QED
    BY <2>2, <2>3, <2>4 DEF BufferExact
<1> QED
  BY <1>1, <1>2 DEF ShotInv

\* A call that fills a buffer (lonejson_serialize_buffer, _owned, _alloc and
\* their JSONL forms) gives all of the text or says how it was cut, for every
\* text, limit and overflow policy and whatever pieces the serializer cuts
\* the text into.
THEOREM BuffersAreExact == ShotSpec => []BufferExact
<1>1. ShotInit => ShotInv
  <2>1. ASSUME NEW j \in Shots PROVE CallInv(ShotStart(j))
    BY StartInv, OneShotAssumption
  <2> QED
    BY <2>1 DEF ShotInit, ShotInv
<1>2. ShotInv /\ [ShotStep]_shot => ShotInv'
  <2> SUFFICES ASSUME ShotInv, [ShotStep]_shot PROVE ShotInv'
    OBVIOUS
  <2>1. CASE UNCHANGED shot
    BY <2>1 DEF ShotInv, CallInv, FixedInv, GrownInv, RefusedInv
  <2>2. CASE ShotStep
    <3>1. shot.status = "running"
      BY <2>2 DEF ShotStep, ShotPut, ShotFails, ShotReturns
    <3>2. CallInv(shot)
      BY <3>1 DEF ShotInv, NoShot
    <3>3. CallInv(shot')
      BY <2>2, <3>2, PutKeeps, FailsKeeps, ReturnsKeeps DEF ShotStep
    <3> QED
      BY <3>3 DEF ShotInv
  <2> QED
    BY <2>1, <2>2
<1>3. ShotInv => BufferExact
  BY InvExact
<1> QED
  BY <1>1, <1>2, <1>3, PTL DEF ShotSpec

=============================================================================
