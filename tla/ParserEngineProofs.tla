------------------------- MODULE ParserEngineProofs -------------------------
(***************************************************************************)
(* Two things about the push parser, whatever the documents, the way they  *)
(* are cut, the map, the nesting limit and the sizes are.                  *)
(*                                                                         *)
(* The frames and the token never leave the workspace, and a mapped array  *)
(* never outgrows its capacity. The argument is one predicate on a parser, *)
(* Sound, which every operator of the engine preserves; the operators that *)
(* open or close a container do so outside a token, which is why a token's *)
(* room does not change under it.                                          *)
(*                                                                         *)
(* The parser's language is JSON. Follows(q, g) relates a parser q to the  *)
(* grammar's automaton g that has read the same bytes: the frames are the  *)
(* automaton's stack, the top frame's state is its control outside a       *)
(* token, and inside one the lexer's fields are the control within the     *)
(* token. Each operator is shown to keep the relation (Agrees), each       *)
(* action to keep it over the bytes it consumes in one step (the lemmas    *)
(* named ...Sim), and GrammarInv, the invariant, adds what holds between   *)
(* the calls.                                                              *)
(***************************************************************************)
EXTENDS ParserEngine, TLAPS, WellFoundedInduction, NaturalsInduction

\* What a token is made of: bytes of the chunks and of decoded escapes.
Marks == (UNION {Range(c) : c \in UNION Streams})
           \cup {"a", "codepoint", "control", "cont", Quote, Backslash, "/"}

Fields == SUBSET DOMAIN FieldKind
Codes == {"OK", "OVERFLOW", "ALLOCATION_FAILED", "INVALID_JSON", "TYPE_MISMATCH",
          "DUPLICATE_FIELD", "MISSING_REQUIRED_FIELD"}
Modes == {"none", "string", "number", "true", "false", "null"}

\* lonejson_frame.
Frame == [kind: {"object", "array"}, state: {"key", "colon", "value", "comma", "item"},
          comma: BOOLEAN, map: BOOLEAN, field: Fields, seen: Fields]

\* lonejson_parser.
Parser ==
  [validate: BOOLEAN, frames: Seq(Frame), started: BOOLEAN, finished: BOOLEAN,
   failed: BOOLEAN, code: Codes, truncated: BOOLEAN,
   lex: Modes, isKey: BOOLEAN, capture: {"token", "discard"}, token: Seq(Marks),
   escape: BOOLEAN, need: Nat, acc: Nat, high: Nat, count: Nat]

FramesFit(q) == Len(q.frames) * FrameBytes <= WorkspaceSize
TokenFits(q) ==
  HoldsToken(q) => Len(q.frames) * FrameBytes + Len(q.token) + 1 <= WorkspaceSize
DepthFits(q) == MaxDepth # 0 => Len(q.frames) <= MaxDepth
CountFits(q) == q.count <= ArrayCapacity

Sound(q) == /\ q \in Parser
            /\ FramesFit(q) /\ TokenFits(q) /\ DepthFits(q) /\ CountFits(q)

\* The inductive invariant.
ParserInv == /\ source \in Streams
             /\ chunk \in Seq(Marks)
             /\ Sound(p)

-----------------------------------------------------------------------------
(***************************************************************************)
(* Bytes.                                                                  *)
(***************************************************************************)

\* Every chunk of a stream is a sequence of marks.
LEMMA ChunkIsText ==
  ASSUME NEW s \in Streams, NEW c \in s
  PROVE  c \in Seq(Marks)
<1>1. c \in Seq(STRING)
  BY ParserAssumption
<1>2. Range(c) \subseteq Marks
  BY DEF Marks
<1>3. \A i \in 1..Len(c) : c[i] \in Marks
  BY <1>1, <1>2 DEF Range
<1> QED
  BY <1>1, <1>3

\* Reading a chunk byte by byte leaves text.
LEMMA PartsOfText ==
  ASSUME NEW s \in Seq(Marks), NEW n \in Nat
  PROVE  /\ n <= Len(s) => SubSeq(s, 1, n) \in Seq(Marks) /\ Len(SubSeq(s, 1, n)) = n
         /\ SubSeq(s, n + 1, Len(s)) \in Seq(Marks)
         /\ n \in 1..Len(s) => s[n] \in Marks
  OBVIOUS

\* Every nonempty set of naturals has a least member.
LEMMA LeastIndex ==
  ASSUME NEW T, T \subseteq Nat, T # {}
  PROVE  \E x \in T : \A y \in T : x <= y
<1>1. IsWellFoundedOn(OpToRel(<, Nat), Nat)
  BY NatLessThanWellFounded
<1>2. PICK x \in T : \A y \in T : ~(<<y, x>> \in OpToRel(<, Nat))
  BY <1>1, WFMin
<1>3. \A y \in T : ~(y < x)
  BY <1>2 DEF OpToRel
<1> QED
  BY <1>3

\* PlainLength and RunLength stay inside the bytes they look at.
LEMMA PlainLengthType ==
  ASSUME NEW s \in Seq(Marks)
  PROVE  PlainLength(s) \in 0..Len(s)
<1> DEFINE Special == Controls \cup {Quote, Backslash}
           Stops == {i \in 1..Len(s) : s[i] \in Special}
<1>1. \E n \in 0..Len(s) : /\ \A i \in 1..n : s[i] \notin Special
                           /\ n = Len(s) \/ s[n + 1] \in Special
  <2>1. CASE Stops = {}
    BY <2>1
  <2>2. CASE Stops # {}
    <3>1. PICK x \in Stops : \A y \in Stops : x <= y
      <4>1. Stops \subseteq Nat
        OBVIOUS
      <4> HIDE DEF Stops
      <4> QED
        BY <2>2, <4>1, LeastIndex
    <3>2. /\ x \in 1..Len(s) /\ s[x] \in Special
          /\ \A i \in 1..(x - 1) : s[i] \notin Special
      BY <3>1
    <3> HIDE DEF Special
    <3>3. x - 1 \in 0..Len(s) /\ (x - 1) + 1 = x
      BY <3>2
    <3> QED
      BY <3>2, <3>3
  <2> QED
    BY <2>1, <2>2
<1> QED
  BY <1>1 DEF PlainLength

LEMMA RunLengthType ==
  ASSUME NEW s \in Seq(Marks), NEW set
  PROVE  RunLength(s, set) \in 0..Len(s)
<1> DEFINE Stops == {i \in 1..Len(s) : s[i] \notin set}
<1>1. \E n \in 0..Len(s) : /\ \A i \in 1..n : s[i] \in set
                           /\ n = Len(s) \/ s[n + 1] \notin set
  <2>1. CASE Stops = {}
    BY <2>1
  <2>2. CASE Stops # {}
    <3>1. PICK x \in Stops : \A y \in Stops : x <= y
      <4>1. Stops \subseteq Nat
        OBVIOUS
      <4> HIDE DEF Stops
      <4> QED
        BY <2>2, <4>1, LeastIndex
    <3>2. /\ x \in 1..Len(s) /\ s[x] \notin set
          /\ \A i \in 1..(x - 1) : s[i] \in set
      BY <3>1
    <3>3. x - 1 \in 0..Len(s) /\ (x - 1) + 1 = x
      BY <3>2
    <3> QED
      BY <3>2, <3>3
  <2> QED
    BY <2>1, <2>2
<1> QED
  BY <1>1 DEF RunLength

\* A hexadecimal digit has a value.
LEMMA HexValueType ==
  ASSUME NEW c \in HexDigits
  PROVE  HexValue(c) \in 0..15
<1>1. \E v \in 0..15 : LowerHex[v + 1] = c \/ (v > 9 /\ UpperHex[v - 9] = c)
  <2>1. CASE c \in Range(LowerHex)
    <3>1. PICK i \in 1..16 : LowerHex[i] = c
      BY <2>1 DEF Range, LowerHex
    <3>2. i - 1 \in 0..15 /\ (i - 1) + 1 = i
      BY <3>1
    <3> QED
      BY <3>1, <3>2
  <2>2. CASE c \in Range(UpperHex)
    <3>1. PICK i \in 1..6 : UpperHex[i] = c
      BY <2>2 DEF Range, UpperHex
    <3>2. i + 9 \in 0..15 /\ (i + 9) - 9 = i /\ i + 9 > 9
      BY <3>1
    <3> QED
      BY <3>1, <3>2
  <2> QED
    BY <2>1, <2>2 DEF HexDigits
<1> QED
  BY <1>1 DEF HexValue

LEMMA QuadType ==
  ASSUME NEW s \in Seq(Marks), NEW i \in Nat, IsQuad(s, i)
  PROVE  Quad(s, i) \in Nat
<1>1. \A k \in i..(i + 3) : HexValue(s[k]) \in Nat
  BY HexValueType DEF IsQuad
<1>2. /\ HexValue(s[i]) \in Nat /\ HexValue(s[i + 1]) \in Nat
      /\ HexValue(s[i + 2]) \in Nat /\ HexValue(s[i + 3]) \in Nat
  BY <1>1
<1> DEFINE a == HexValue(s[i])
           b == HexValue(s[i + 1])
           c == HexValue(s[i + 2])
           d == HexValue(s[i + 3])
<1>3. Quad(s, i) = 4096 * a + 256 * b + 16 * c + d
  BY Zenon DEF Quad
<1>4. a \in Nat /\ b \in Nat /\ c \in Nat /\ d \in Nat
  BY <1>2
<1> HIDE DEF a, b, c, d
<1> QED
  BY <1>3, <1>4

-----------------------------------------------------------------------------
(***************************************************************************)
(* Fields of a parser.                                                     *)
(***************************************************************************)

LEMMA TopType ==
  ASSUME NEW q \in Parser, q.frames # <<>>
  PROVE  Top(q) \in Frame
<1>1. q.frames \in Seq(Frame)
  BY DEF Parser
<1>2. Len(q.frames) \in 1..Len(q.frames)
  BY <1>1
<1> QED
  BY <1>1, <1>2 DEF Top, Last

\* A parser that differs from a sound one outside its workspace, or whose
\* token is closed, is sound.
LEMMA Carried ==
  ASSUME NEW q, NEW r \in Parser, Sound(q), Len(r.frames) = Len(q.frames),
         r.count <= ArrayCapacity,
         \/ r.lex = "none"
         \/ /\ r.lex = q.lex /\ r.capture = q.capture /\ r.token = q.token
            /\ Ok(r) => Ok(q)
  PROVE  Sound(r)
<1>1. FramesFit(r) /\ DepthFits(r) /\ CountFits(r)
  BY DEF Sound, FramesFit, DepthFits, CountFits
<1>2. TokenFits(r)
  BY DEF Sound, TokenFits, HoldsToken
<1> QED
  BY <1>1, <1>2 DEF Sound

LEMMA FailSound ==
  ASSUME NEW q, Sound(q), NEW code \in Codes, code # "OK"
  PROVE  Sound(Fail(q, code)) /\ Fail(q, code).lex = q.lex
<1> DEFINE r == Fail(q, code)
<1>1. q \in Parser /\ q.count <= ArrayCapacity
  BY DEF Sound, CountFits
<1>2. r \in Parser
  BY <1>1 DEF Fail, Parser
<1>3. /\ r.frames = q.frames /\ r.count = q.count /\ r.lex = q.lex
      /\ r.capture = q.capture /\ r.token = q.token /\ r.code = code
  BY <1>1 DEF Fail, Parser
<1> HIDE DEF r
<1>4. ~Ok(r)
  BY <1>3 DEF Ok
<1> QED
  BY <1>1, <1>2, <1>3, <1>4, Carried DEF r

LEMMA SetTopSound ==
  ASSUME NEW q, Sound(q), NEW f, q.frames # <<>> => f \in Frame
  PROVE  /\ Sound(SetTop(q, f))
         /\ SetTop(q, f).lex = q.lex /\ SetTop(q, f).count = q.count
<1> DEFINE r == SetTop(q, f)
           s == [q.frames EXCEPT ![Len(q.frames)] = f]
<1>1. q \in Parser /\ q.count <= ArrayCapacity /\ q.frames \in Seq(Frame)
  BY DEF Sound, CountFits, Parser
<1>2. s \in Seq(Frame) /\ Len(s) = Len(q.frames)
  <2>1. CASE q.frames = <<>>
    <3>1. DOMAIN q.frames = {}
      BY <1>1, <2>1
    <3>2. s = q.frames
      BY <1>1, <2>1, <3>1
    <3> QED
      BY <1>1, <3>2
  <2>2. CASE q.frames # <<>>
    BY <1>1, <2>2
  <2> QED
    BY <2>1, <2>2
<1>3. r = [q EXCEPT !.frames = s]
  BY <1>1 DEF SetTop, Parser
<1> HIDE DEF s, r
<1>4. r \in Parser
  BY <1>1, <1>2, <1>3 DEF Parser
<1>5. /\ r.frames = s /\ r.count = q.count /\ r.lex = q.lex
      /\ r.capture = q.capture /\ r.token = q.token /\ r.code = q.code
  BY <1>1, <1>3 DEF Parser
<1>6. Sound(r)
  BY <1>1, <1>2, <1>4, <1>5, Carried DEF Ok
<1> QED
  BY <1>5, <1>6 DEF r

-----------------------------------------------------------------------------
(***************************************************************************)
(* The token.                                                              *)
(***************************************************************************)

LEMMA TokenLimitBound ==
  ASSUME NEW q, Sound(q)
  PROVE  /\ TokenLimit(q) \in Nat
         /\ Len(q.frames) * FrameBytes \in Nat
         /\ TokenLimit(q) # 0 =>
              Len(q.frames) * FrameBytes + TokenLimit(q) + 1 = WorkspaceSize
<1>1. Len(q.frames) \in Nat
  BY DEF Sound, Parser
<1>2. Len(q.frames) * FrameBytes \in Nat
  BY <1>1, ParserAssumption
<1> DEFINE room == Len(q.frames) * FrameBytes
<1> HIDE DEF room
<1>3. room \in Nat /\ WorkspaceSize \in Nat
  BY <1>2, ParserAssumption DEF room
<1>4. TokenLimit(q) = IF WorkspaceSize <= room THEN 0 ELSE WorkspaceSize - room - 1
  BY DEF TokenLimit, room
<1>5. TokenLimit(q) \in Nat /\ (TokenLimit(q) # 0 => room + TokenLimit(q) + 1 = WorkspaceSize)
  BY <1>3, <1>4
<1> QED
  BY <1>2, <1>5 DEF room

\* A token for which there is room is sound.
LEMMA TokenSound ==
  ASSUME NEW q, Sound(q), NEW r \in Parser, r.frames = q.frames, r.count = q.count,
         Len(r.token) <= TokenLimit(q), TokenLimit(q) # 0
  PROVE  Sound(r)
<1>1. FramesFit(r) /\ DepthFits(r) /\ CountFits(r)
  BY DEF Sound, FramesFit, DepthFits, CountFits
<1>2. Len(r.token) \in Nat
  BY DEF Parser
<1> DEFINE room == Len(q.frames) * FrameBytes
<1>3. room \in Nat /\ TokenLimit(q) \in Nat /\ room + TokenLimit(q) + 1 = WorkspaceSize
  BY TokenLimitBound
<1> HIDE DEF room
<1>4. room + Len(r.token) + 1 <= WorkspaceSize
  BY <1>2, <1>3
<1>5. Len(r.frames) * FrameBytes + Len(r.token) + 1 <= WorkspaceSize
  BY <1>4 DEF room
<1> QED
  BY <1>1, <1>5 DEF Sound, TokenFits

\* An empty token that is not held is sound.
LEMMA NoTokenSound ==
  ASSUME NEW q, Sound(q), NEW r \in Parser, r.frames = q.frames, r.count = q.count,
         ~HoldsToken(r)
  PROVE  Sound(r)
  BY DEF Sound, FramesFit, DepthFits, CountFits, TokenFits

\* The fields of a parser that PrepareToken and BeginString leave alone.
Opened(q, r) == r \in Parser /\ r.frames = q.frames /\ r.count = q.count

LEMMA PrepareTokenSound ==
  ASSUME NEW q, Sound(q), NEW r, Opened(q, r)
  PROVE  Sound(PrepareToken(r))
<1> DEFINE e == [r EXCEPT !.token = <<>>]
<1>1. e \in Parser /\ e.frames = q.frames /\ e.count = q.count /\ e.token = <<>>
  <2>1. <<>> \in Seq(Marks)
    OBVIOUS
  <2> QED
    BY <2>1 DEF Opened, Parser
<1>2. TokenLimit(r) = TokenLimit(q)
  BY DEF TokenLimit, Opened
<1>3. PrepareToken(r) = IF TokenLimit(q) = 0 THEN Fail(e, "OVERFLOW") ELSE e
  BY <1>2 DEF PrepareToken
<1> HIDE DEF e
<1>4. CASE TokenLimit(q) = 0
  <2> DEFINE d == Fail(e, "OVERFLOW")
  <2>1. d \in Parser /\ d.frames = q.frames /\ d.count = q.count /\ d.token = <<>>
        /\ d.code = "OVERFLOW"
    BY <1>1 DEF Fail, Parser, Codes
  <2> HIDE DEF d
  <2>2. ~HoldsToken(d)
    BY <2>1 DEF HoldsToken, Ok
  <2>3. Sound(d)
    BY <2>1, <2>2, NoTokenSound
  <2> QED
    BY <1>3, <1>4, <2>3 DEF d
<1>5. CASE TokenLimit(q) # 0
  <2>1. Len(e.token) = 0 /\ TokenLimit(q) \in Nat
    BY <1>1, TokenLimitBound
  <2>2. Sound(e)
    BY <1>1, <1>5, <2>1, TokenSound
  <2> QED
    BY <1>3, <1>5, <2>2
<1> QED
  BY <1>4, <1>5

LEMMA ReserveBound ==
  ASSUME NEW q, Sound(q), NEW need \in Nat, ScratchReserve(q, need)
  PROVE  need < TokenLimit(q) /\ TokenLimit(q) # 0
<1>1. TokenLimit(q) \in Nat
  BY TokenLimitBound
<1> QED
  BY <1>1 DEF ScratchReserve

LEMMA ScratchAppendBytesSound ==
  ASSUME NEW q, Sound(q), NEW s \in Seq(Marks)
  PROVE  Sound(ScratchAppendBytes(q, s))
<1> DEFINE r == [q EXCEPT !.token = q.token \o s]
           need == Len(q.token) + Len(s) + 1
<1>1. q \in Parser /\ q.token \in Seq(Marks)
  BY DEF Sound, Parser
<1>2. q.token \o s \in Seq(Marks) /\ Len(q.token \o s) = Len(q.token) + Len(s)
  BY <1>1
<1>3. r \in Parser /\ r.frames = q.frames /\ r.count = q.count /\ r.token = q.token \o s
  BY <1>1, <1>2 DEF Parser
<1>4. need \in Nat /\ Len(r.token) < need
  BY <1>1, <1>2, <1>3
<1>5. ScratchAppendBytes(q, s) =
        IF ScratchReserve(q, need) THEN r ELSE Fail(q, "ALLOCATION_FAILED")
  BY DEF ScratchAppendBytes
<1> HIDE DEF r, need
<1>6. CASE ScratchReserve(q, need)
  <2>1. need < TokenLimit(q) /\ TokenLimit(q) # 0 /\ TokenLimit(q) \in Nat
    BY <1>4, <1>6, ReserveBound, TokenLimitBound
  <2>2. Len(r.token) \in Nat
    BY <1>3 DEF Parser
  <2>3. Len(r.token) <= TokenLimit(q)
    BY <1>4, <2>1, <2>2
  <2>4. Sound(r)
    BY <1>3, <2>1, <2>3, TokenSound
  <2> QED
    BY <1>5, <1>6, <2>4
<1>7. CASE ~ScratchReserve(q, need)
  BY <1>5, <1>7, FailSound DEF Codes
<1> QED
  BY <1>6, <1>7

LEMMA ScratchAppendSound ==
  ASSUME NEW q, Sound(q), NEW c \in Marks
  PROVE  Sound(ScratchAppend(q, c))
<1> DEFINE r == [q EXCEPT !.token = Append(q.token, c)]
           need == Len(q.token) + 2
<1>1. q \in Parser /\ q.token \in Seq(Marks)
  BY DEF Sound, Parser
<1>2. Append(q.token, c) \in Seq(Marks) /\ Len(Append(q.token, c)) = Len(q.token) + 1
  BY <1>1
<1>3. /\ r \in Parser /\ r.frames = q.frames /\ r.count = q.count
      /\ r.token = Append(q.token, c)
  BY <1>1, <1>2 DEF Parser
<1>4. need \in Nat /\ Len(r.token) < need
  BY <1>1, <1>2, <1>3
<1>5. ScratchAppend(q, c) =
        IF ScratchReserve(q, need) THEN r ELSE Fail(q, "ALLOCATION_FAILED")
  BY DEF ScratchAppend
<1> HIDE DEF r, need
<1>6. CASE ScratchReserve(q, need)
  <2>1. need < TokenLimit(q) /\ TokenLimit(q) # 0 /\ TokenLimit(q) \in Nat
    BY <1>4, <1>6, ReserveBound, TokenLimitBound
  <2>2. Len(r.token) \in Nat
    BY <1>3 DEF Parser
  <2>3. Len(r.token) <= TokenLimit(q)
    BY <1>4, <2>1, <2>2
  <2>4. Sound(r)
    BY <1>3, <2>1, <2>3, TokenSound
  <2> QED
    BY <1>5, <1>6, <2>4
<1>7. CASE ~ScratchReserve(q, need)
  BY <1>5, <1>7, FailSound DEF Codes
<1> QED
  BY <1>6, <1>7

LEMMA AppendTextSound ==
  ASSUME NEW q, Sound(q), NEW s \in Seq(Marks)
  PROVE  Sound(AppendText(q, s))
  BY ScratchAppendBytesSound DEF AppendText

LEMMA AppendByteSound ==
  ASSUME NEW q, Sound(q), NEW c \in Marks
  PROVE  Sound(AppendByte(q, c))
  BY ScratchAppendSound DEF AppendByte

LEMMA BeginStringSound ==
  ASSUME NEW q, Sound(q), NEW isKey \in BOOLEAN
  PROVE  Sound(BeginString(q, isKey))
<1> DEFINE mode == IF q.validate THEN "discard" ELSE "token"
           r == [q EXCEPT !.lex = "string", !.isKey = isKey, !.escape = FALSE,
                          !.high = 0, !.need = 0, !.capture = mode]
           e == [r EXCEPT !.token = <<>>]
<1>1. q \in Parser
  BY DEF Sound
<1>2. mode \in {"token", "discard"} /\ 0 \in Nat /\ <<>> \in Seq(Marks)
  OBVIOUS
<1>3. BeginString(q, isKey) = IF q.validate THEN e ELSE PrepareToken(r)
  BY DEF BeginString
<1>m. q.validate => mode = "discard"
  OBVIOUS
<1> HIDE DEF mode
<1>4. Opened(q, r) /\ r.lex = "string" /\ r.capture = mode
  BY <1>1, <1>2 DEF Opened, Parser, Modes
<1> HIDE DEF r
<1>5. Opened(q, e) /\ e.lex = "string" /\ e.capture = mode
  BY <1>2, <1>4 DEF Opened, Parser
<1> HIDE DEF e
<1>6. CASE q.validate
  <2>1. ~HoldsToken(e)
    BY <1>m, <1>5, <1>6 DEF HoldsToken
  <2>2. Sound(e)
    BY <1>5, <2>1, NoTokenSound DEF Opened
  <2> QED
    BY <1>3, <1>6, <2>2
<1>7. CASE ~q.validate
  BY <1>3, <1>4, <1>7, PrepareTokenSound
<1> QED
  BY <1>6, <1>7

LEMMA BeginScalarSound ==
  ASSUME NEW q, Sound(q), NEW mode \in Modes, NEW c \in Marks
  PROVE  Sound(BeginScalar(q, mode, c))
<1> DEFINE r == [q EXCEPT !.lex = mode, !.isKey = FALSE]
<1>1. q \in Parser
  BY DEF Sound
<1>2. Opened(q, r)
  BY <1>1 DEF Opened, Parser
<1>3. BeginScalar(q, mode, c) =
        IF Ok(PrepareToken(r)) THEN ScratchAppend(PrepareToken(r), c)
        ELSE PrepareToken(r)
  BY DEF BeginScalar
<1> HIDE DEF r
<1>4. Sound(PrepareToken(r))
  BY <1>2, PrepareTokenSound
<1>5. Sound(ScratchAppend(PrepareToken(r), c))
  BY <1>4, ScratchAppendSound
<1> QED
  BY <1>3, <1>4, <1>5

-----------------------------------------------------------------------------
(***************************************************************************)
(* Containers and values: outside every token.                             *)
(***************************************************************************)

\* A sound parser between two tokens.
Between(q) == Sound(q) /\ q.lex = "none"

LEMMA BetweenFail ==
  ASSUME NEW q, Between(q), NEW code \in Codes, code # "OK"
  PROVE  Between(Fail(q, code))
  BY FailSound DEF Between

LEMMA BetweenSetTop ==
  ASSUME NEW q, Between(q), NEW f, q.frames # <<>> => f \in Frame
  PROVE  Between(SetTop(q, f)) /\ SetTop(q, f).count = q.count
  BY SetTopSound DEF Between

\* Changes that leave the workspace alone.
LEMMA BetweenFlags ==
  ASSUME NEW q, Between(q), NEW r \in Parser, Len(r.frames) = Len(q.frames),
         r.lex = "none", r.count <= ArrayCapacity
  PROVE  Between(r)
  BY Carried DEF Between

LEMMA CompleteParentSound ==
  ASSUME NEW q, Between(q)
  PROVE  Between(CompleteParent(q))
<1>1. q \in Parser /\ q.lex = "none" /\ q.count <= ArrayCapacity
  BY DEF Between, Sound, CountFits
<1>2. CASE q.frames = <<>>
  <2> DEFINE r == [q EXCEPT !.finished = TRUE]
  <2>1. r \in Parser /\ r.frames = q.frames /\ r.lex = "none" /\ r.count = q.count
    BY <1>1 DEF Parser
  <2>2. CompleteParent(q) = r
    BY <1>2 DEF CompleteParent
  <2> HIDE DEF r
  <2> QED
    BY <1>1, <2>1, <2>2, BetweenFlags
<1>3. CASE q.frames # <<>>
  <2> DEFINE field == IF Top(q).kind = "object" THEN {} ELSE Top(q).field
             f == [Top(q) EXCEPT !.state = "comma", !.field = field]
  <2>1. Top(q) \in Frame
    BY <1>1, <1>3, TopType
  <2>2. field \in Fields
    BY <2>1 DEF Frame, Fields
  <2>3. CompleteParent(q) = SetTop(q, f)
    BY <1>3 DEF CompleteParent
  <2> HIDE DEF field
  <2>4. f \in Frame
    BY <2>1, <2>2 DEF Frame
  <2> HIDE DEF f
  <2> QED
    BY <2>3, <2>4, BetweenSetTop
<1> QED
  BY <1>2, <1>3

LEMMA PushFrameSound ==
  ASSUME NEW q, Between(q), NEW kind \in {"object", "array"}, NEW map \in BOOLEAN,
         NEW field \in Fields
  PROVE  Between(PushFrame(q, kind, map, field))
<1> DEFINE full == \/ MaxDepth # 0 /\ Len(q.frames) >= MaxDepth
                   \/ (Len(q.frames) + 1) * FrameBytes > WorkspaceSize
           f == [kind |-> kind, state |-> IF kind = "object" THEN "key" ELSE "item",
                 comma |-> FALSE, map |-> map, field |-> field, seen |-> {}]
           r == [q EXCEPT !.frames = Append(q.frames, f)]
<1>1. /\ q \in Parser /\ q.lex = "none" /\ q.count <= ArrayCapacity
      /\ q.frames \in Seq(Frame) /\ Len(q.frames) \in Nat
  BY DEF Between, Sound, CountFits, Parser
<1>2. PushFrame(q, kind, map, field) = IF full THEN Fail(q, "OVERFLOW") ELSE r
  BY DEF PushFrame
<1>3. CASE full
  BY <1>2, <1>3, BetweenFail DEF Codes
<1>4. CASE ~full
  <2>1. f \in Frame
    BY DEF Frame, Fields
  <2> HIDE DEF f
  <2>2. Append(q.frames, f) \in Seq(Frame) /\ Len(Append(q.frames, f)) = Len(q.frames) + 1
    BY <1>1, <2>1
  <2>3. /\ r \in Parser /\ r.frames = Append(q.frames, f) /\ r.lex = "none"
        /\ r.count = q.count
    BY <1>1, <2>2 DEF Parser
  <2>4. Len(r.frames) = Len(q.frames) + 1
    BY <2>2, <2>3
  <2>5. PushFrame(q, kind, map, field) = r
    BY <1>2, <1>4
  <2> HIDE DEF r
  <2>6. FramesFit(r)
    <3>1. Len(r.frames) * FrameBytes = (Len(q.frames) + 1) * FrameBytes
      BY <2>4
    <3>2. ~((Len(q.frames) + 1) * FrameBytes > WorkspaceSize)
      BY <1>4
    <3>3. (Len(q.frames) + 1) * FrameBytes \in Nat /\ WorkspaceSize \in Nat
      BY <1>1, ParserAssumption
    <3> QED
      BY <3>1, <3>2, <3>3 DEF FramesFit
  <2>7. DepthFits(r)
    BY <1>1, <1>4, <2>4, ParserAssumption DEF DepthFits
  <2>8. TokenFits(r) /\ CountFits(r)
    BY <1>1, <2>3 DEF TokenFits, HoldsToken, CountFits
  <2> QED
    BY <2>3, <2>5, <2>6, <2>7, <2>8 DEF Between, Sound
<1> QED
  BY <1>3, <1>4

LEMMA PopFrameSound ==
  ASSUME NEW q, Between(q)
  PROVE  Between(PopFrame(q))
<1> DEFINE s == Front(q.frames)
           r == [q EXCEPT !.frames = s]
<1>1. /\ q \in Parser /\ q.lex = "none" /\ q.count <= ArrayCapacity
      /\ q.frames \in Seq(Frame) /\ Len(q.frames) \in Nat
  BY DEF Between, Sound, CountFits, Parser
<1>2. s \in Seq(Frame) /\ Len(s) \in Nat /\ Len(s) <= Len(q.frames)
  BY <1>1 DEF Front
<1>3. PopFrame(q) = r
  BY DEF PopFrame
<1> HIDE DEF s
<1>4. r \in Parser /\ r.frames = s /\ r.lex = "none" /\ r.count = q.count
  BY <1>1, <1>2 DEF Parser
<1> HIDE DEF r
<1>5. FramesFit(r)
  <2>1. \A m, n, k \in Nat : m <= n => m * k <= n * k
    OBVIOUS
  <2>2. Len(s) * FrameBytes <= Len(q.frames) * FrameBytes
    BY <1>1, <1>2, <2>1, ParserAssumption
  <2>3. /\ Len(s) * FrameBytes \in Nat /\ Len(q.frames) * FrameBytes \in Nat
        /\ WorkspaceSize \in Nat
    BY <1>1, <1>2, ParserAssumption
  <2>4. Len(q.frames) * FrameBytes <= WorkspaceSize
    BY DEF Between, Sound, FramesFit
  <2> QED
    BY <1>4, <2>2, <2>3, <2>4 DEF FramesFit
<1>6. DepthFits(r)
  <2>1. MaxDepth # 0 => Len(q.frames) <= MaxDepth
    BY DEF Between, Sound, DepthFits
  <2> QED
    BY <1>1, <1>2, <1>4, <2>1, ParserAssumption DEF DepthFits
<1>7. TokenFits(r) /\ CountFits(r)
  BY <1>1, <1>4 DEF TokenFits, HoldsToken, CountFits
<1> QED
  BY <1>3, <1>4, <1>5, <1>6, <1>7 DEF Between, Sound

LEMMA MarkSeenSound ==
  ASSUME NEW q, Between(q)
  PROVE  Between(MarkSeen(q)) /\ MarkSeen(q).count = q.count
<1> DEFINE f == [Top(q) EXCEPT !.seen = Top(q).seen \cup Top(q).field]
<1>1. q.frames # <<>> => f \in Frame
  <2> SUFFICES ASSUME q.frames # <<>> PROVE f \in Frame
    OBVIOUS
  <2>1. Top(q) \in Frame
    BY TopType DEF Between, Sound
  <2>2. Top(q).seen \cup Top(q).field \in Fields
    BY <2>1 DEF Frame, Fields
  <2> QED
    BY <2>1, <2>2 DEF Frame
<1>2. MarkSeen(q) = SetTop(q, f)
  BY DEF MarkSeen
<1> HIDE DEF f
<1> QED
  BY <1>1, <1>2, BetweenSetTop

\* The top frame with its comma forgotten: what a container opens under.
LEMMA NoCommaSound ==
  ASSUME NEW q, Between(q)
  PROVE  Between(SetTop(q, [Top(q) EXCEPT !.comma = FALSE]))
<1> DEFINE f == [Top(q) EXCEPT !.comma = FALSE]
<1>1. q.frames # <<>> => f \in Frame
  <2> SUFFICES ASSUME q.frames # <<>> PROVE f \in Frame
    OBVIOUS
  <2>1. Top(q) \in Frame
    BY TopType DEF Between, Sound
  <2> QED
    BY <2>1 DEF Frame
<1> HIDE DEF f
<1>2. Between(SetTop(q, f))
  BY <1>1, BetweenSetTop
<1> QED
  BY <1>2 DEF f

LEMMA StartedSound ==
  ASSUME NEW q, Between(q)
  PROVE  Between([q EXCEPT !.started = TRUE])
<1> DEFINE r == [q EXCEPT !.started = TRUE]
<1>1. q \in Parser /\ q.lex = "none" /\ q.count <= ArrayCapacity
  BY DEF Between, Sound, CountFits
<1>2. r \in Parser /\ r.frames = q.frames /\ r.lex = "none" /\ r.count = q.count
  BY <1>1 DEF Parser
<1> HIDE DEF r
<1>3. Between(r)
  BY <1>1, <1>2, BetweenFlags
<1> QED
  BY <1>3 DEF r

LEMMA BeginObjectSound ==
  ASSUME NEW q, Between(q)
  PROVE  Between(BeginObject(q))
<1> DEFINE r == SetTop(q, [Top(q) EXCEPT !.comma = FALSE])
           b == [q EXCEPT !.started = TRUE]
<1>1. Between(r) /\ Between(b)
  BY NoCommaSound, StartedSound
<1>2. \/ BeginObject(q) = PushFrame(b, "object", ~q.validate, {})
      \/ BeginObject(q) = PushFrame(r, "object", FALSE, {})
      \/ BeginObject(q) = Fail(r, "DUPLICATE_FIELD")
      \/ BeginObject(q) = Fail(r, "TYPE_MISMATCH")
  BY DEF BeginObject
<1>3. {} \in Fields /\ (~q.validate) \in BOOLEAN
  BY DEF Fields
<1> HIDE DEF r, b
<1>4. /\ Between(PushFrame(b, "object", ~q.validate, {}))
      /\ Between(PushFrame(r, "object", FALSE, {}))
  BY <1>1, <1>3, PushFrameSound
<1>5. Between(Fail(r, "DUPLICATE_FIELD")) /\ Between(Fail(r, "TYPE_MISMATCH"))
  BY <1>1, BetweenFail DEF Codes
<1> QED
  BY <1>2, <1>4, <1>5

LEMMA CountSound ==
  ASSUME NEW q, Between(q), NEW n \in 0..ArrayCapacity
  PROVE  Between([q EXCEPT !.count = n])
<1> DEFINE r == [q EXCEPT !.count = n]
<1>1. q \in Parser /\ q.lex = "none"
  BY DEF Between, Sound
<1>2. n \in Nat /\ n <= ArrayCapacity
  BY ParserAssumption
<1>3. r \in Parser /\ r.frames = q.frames /\ r.lex = "none" /\ r.count = n
  BY <1>1, <1>2 DEF Parser
<1> HIDE DEF r
<1>4. Between(r)
  BY <1>2, <1>3, BetweenFlags
<1> QED
  BY <1>4 DEF r

LEMMA ZeroInCapacity == 0 \in 0..ArrayCapacity
  BY ParserAssumption

LEMMA BeginArraySound ==
  ASSUME NEW q, Between(q)
  PROVE  Between(BeginArray(q))
<1> DEFINE r == SetTop(q, [Top(q) EXCEPT !.comma = FALSE])
           b == [q EXCEPT !.started = TRUE]
           e == [MarkSeen(r) EXCEPT !.count = 0]
<1>1. Between(r) /\ Between(b)
  BY NoCommaSound, StartedSound
<1>2. Between(e)
  BY <1>1, MarkSeenSound, CountSound, ZeroInCapacity
<1>3. \/ BeginArray(q) = PushFrame(b, "array", FALSE, {})
      \/ BeginArray(q) = Fail(q, "TYPE_MISMATCH")
      \/ BeginArray(q) = PushFrame(r, "array", FALSE, {})
      \/ BeginArray(q) = Fail(r, "DUPLICATE_FIELD")
      \/ q.frames # <<>> /\ BeginArray(q) = PushFrame(e, "array", FALSE, Top(q).field)
      \/ BeginArray(q) = Fail(r, "TYPE_MISMATCH")
  <2>1. CASE ~q.started
    BY <2>1 DEF BeginArray
  <2>2. CASE q.started /\ Top(q).field = {}
    <3>1. KindOf(Top(q).field) # "i64_array"
      BY <2>2 DEF KindOf
    <3> QED
      BY <2>2, <3>1 DEF BeginArray
  <2>3. CASE q.started /\ Top(q).field # {} /\ q.frames = <<>>
    BY <2>3 DEF BeginArray
  <2>4. CASE q.started /\ Top(q).field # {} /\ q.frames # <<>>
    BY <2>4 DEF BeginArray
  <2> QED
    BY <2>1, <2>2, <2>3, <2>4
<1>4. {} \in Fields
  BY DEF Fields
<1>5. q.frames # <<>> => Top(q).field \in Fields
  BY TopType DEF Between, Sound, Frame
<1> HIDE DEF r, b, e
<1>6. /\ Between(PushFrame(b, "array", FALSE, {}))
      /\ Between(PushFrame(r, "array", FALSE, {}))
      /\ q.frames # <<>> => Between(PushFrame(e, "array", FALSE, Top(q).field))
  BY <1>1, <1>2, <1>4, <1>5, PushFrameSound
<1>7. /\ Between(Fail(r, "DUPLICATE_FIELD")) /\ Between(Fail(r, "TYPE_MISMATCH"))
      /\ Between(Fail(q, "TYPE_MISMATCH"))
  BY <1>1, BetweenFail DEF Codes
<1> QED
  BY <1>3, <1>6, <1>7

LEMMA FinalizeSound ==
  ASSUME NEW q, Between(q)
  PROVE  Between(FinalizeObject(q)) /\ Between(FinalizeArray(q))
<1>1. Between(CompleteParent(PopFrame(q)))
  BY PopFrameSound, CompleteParentSound
<1>2. Between(Fail(q, "MISSING_REQUIRED_FIELD"))
  BY BetweenFail DEF Codes
<1> QED
  BY <1>1, <1>2 DEF FinalizeObject, FinalizeArray

LEMMA DeliverKeySound ==
  ASSUME NEW q, Between(q), NEW text
  PROVE  Between(DeliverKey(q, text))
<1> DEFINE field == IF Top(q).map /\ text \in DOMAIN FieldKind THEN {text} ELSE {}
           f == [Top(q) EXCEPT !.state = "colon", !.field = field]
<1>1. field \in Fields
  BY DEF Fields
<1>2. DeliverKey(q, text) = SetTop(q, f)
  BY DEF DeliverKey
<1> HIDE DEF field
<1>3. q.frames # <<>> => f \in Frame
  <2> SUFFICES ASSUME q.frames # <<>> PROVE f \in Frame
    OBVIOUS
  <2>1. Top(q) \in Frame
    BY TopType DEF Between, Sound
  <2> QED
    BY <1>1, <2>1 DEF Frame
<1> HIDE DEF f
<1> QED
  BY <1>2, <1>3, BetweenSetTop

LEMMA ScalarForFieldSound ==
  ASSUME NEW q, Between(q), NEW mode
  PROVE  Between(ScalarForField(q, mode))
<1> DEFINE e == [MarkSeen(q) EXCEPT !.count = 0]
<1>1. Between(MarkSeen(q)) /\ Between(e)
  BY MarkSeenSound, CountSound, ZeroInCapacity
<1>2. \/ ScalarForField(q, mode) = CompleteParent(q)
      \/ ScalarForField(q, mode) = Fail(q, "DUPLICATE_FIELD")
      \/ ScalarForField(q, mode) = CompleteParent(MarkSeen(q))
      \/ ScalarForField(q, mode) = CompleteParent(e)
      \/ ScalarForField(q, mode) = Fail(MarkSeen(q), "TYPE_MISMATCH")
  BY DEF ScalarForField
<1> HIDE DEF e
<1>3. /\ Between(CompleteParent(q)) /\ Between(CompleteParent(MarkSeen(q)))
      /\ Between(CompleteParent(e))
  BY <1>1, CompleteParentSound
<1>4. /\ Between(Fail(q, "DUPLICATE_FIELD"))
      /\ Between(Fail(MarkSeen(q), "TYPE_MISMATCH"))
  BY <1>1, BetweenFail DEF Codes
<1> QED
  BY <1>2, <1>3, <1>4

\* The top frame in another state.
LEMMA StateSound ==
  ASSUME NEW q, Between(q), q.frames # <<>>,
         NEW state \in {"key", "colon", "value", "comma", "item"}, NEW comma \in BOOLEAN
  PROVE  /\ Between(SetTop(q, [Top(q) EXCEPT !.state = state]))
         /\ SetTop(q, [Top(q) EXCEPT !.state = state]).count = q.count
         /\ Between(SetTop(q, [Top(q) EXCEPT !.state = state, !.comma = comma]))
         /\ Between(SetTop(q, [Top(q) EXCEPT !.comma = comma, !.state = state]))
<1> DEFINE f == [Top(q) EXCEPT !.state = state]
           g == [Top(q) EXCEPT !.state = state, !.comma = comma]
           h == [Top(q) EXCEPT !.comma = comma, !.state = state]
<1>1. Top(q) \in Frame
  BY TopType DEF Between, Sound
<1>2. f \in Frame /\ g \in Frame /\ h \in Frame
  BY <1>1 DEF Frame
<1> HIDE DEF f, g, h
<1>3. /\ Between(SetTop(q, f)) /\ SetTop(q, f).count = q.count
      /\ Between(SetTop(q, g)) /\ Between(SetTop(q, h))
  BY <1>2, BetweenSetTop
<1> QED
  BY <1>3 DEF f, g, h

\* An item is stored only while the array has room for it.
LEMMA ScalarForArraySound ==
  ASSUME NEW q, Between(q), q.frames # <<>>, NEW mode
  PROVE  Between(ScalarForArray(q, mode))
<1> DEFINE next == SetTop(q, [Top(q) EXCEPT !.state = "comma"])
<1>1. Between(next) /\ next.count = q.count
  BY StateSound
<1>2. \/ ScalarForArray(q, mode) = Fail(q, "TYPE_MISMATCH")
      \/ ~ArrayFull(q) /\ ScalarForArray(q, mode) = [next EXCEPT !.count = next.count + 1]
      \/ ScalarForArray(q, mode) = Fail(q, "OVERFLOW")
      \/ ScalarForArray(q, mode) = [next EXCEPT !.truncated = TRUE]
  BY DEF ScalarForArray
<1> HIDE DEF next
<1>3. Between(Fail(q, "TYPE_MISMATCH")) /\ Between(Fail(q, "OVERFLOW"))
  BY BetweenFail DEF Codes
<1>4. ASSUME ~ArrayFull(q) PROVE Between([next EXCEPT !.count = next.count + 1])
  <2>1. q.count \in Nat
    BY DEF Between, Sound, Parser
  <2>2. next.count + 1 \in 0..ArrayCapacity
    BY <1>1, <1>4, <2>1, ParserAssumption DEF ArrayFull
  <2> QED
    BY <1>1, <2>2, CountSound
<1>5. Between([next EXCEPT !.truncated = TRUE])
  <2> DEFINE r == [next EXCEPT !.truncated = TRUE]
  <2>1. next \in Parser /\ next.lex = "none" /\ next.count <= ArrayCapacity
    BY <1>1 DEF Between, Sound, CountFits
  <2>2. /\ r \in Parser /\ r.frames = next.frames /\ r.lex = "none"
        /\ r.count = next.count
    BY <2>1 DEF Parser
  <2> HIDE DEF r
  <2>3. Between(r)
    BY <1>1, <2>1, <2>2, BetweenFlags
  <2> QED
    BY <2>3 DEF r
<1> QED
  BY <1>2, <1>3, <1>4, <1>5

LEMMA DeliverTokenSound ==
  ASSUME NEW q, Between(q), NEW mode
  PROVE  Between(DeliverToken(q, mode))
<1> DEFINE b == [q EXCEPT !.started = TRUE, !.finished = TRUE]
           s == SetTop(q, [Top(q) EXCEPT !.comma = FALSE, !.state = "comma"])
<1>1. \/ DeliverToken(q, mode) = DeliverKey(q, q.token)
      \/ DeliverToken(q, mode) = Fail(q, "INVALID_JSON")
      \/ DeliverToken(q, mode) = b
      \/ q.frames # <<>> /\ DeliverToken(q, mode) = ScalarForField(q, mode)
      \/ q.frames # <<>> /\ DeliverToken(q, mode) = s
      \/ q.frames # <<>> /\ DeliverToken(q, mode) = ScalarForArray(q, mode)
  BY DEF DeliverToken
<1>2. Between(b)
  <2>1. q \in Parser /\ q.lex = "none" /\ q.count <= ArrayCapacity
    BY DEF Between, Sound, CountFits
  <2>2. b \in Parser /\ b.frames = q.frames /\ b.lex = "none" /\ b.count = q.count
    BY <2>1 DEF Parser
  <2> HIDE DEF b
  <2> QED
    BY <2>1, <2>2, BetweenFlags
<1>3. q.frames # <<>> => Between(s)
  BY StateSound
<1> HIDE DEF b, s
<1>4. /\ Between(DeliverKey(q, q.token)) /\ Between(Fail(q, "INVALID_JSON"))
      /\ Between(ScalarForField(q, mode))
      /\ q.frames # <<>> => Between(ScalarForArray(q, mode))
  BY DeliverKeySound, BetweenFail, ScalarForFieldSound, ScalarForArraySound DEF Codes
<1> QED
  BY <1>1, <1>2, <1>3, <1>4

-----------------------------------------------------------------------------
(***************************************************************************)
(* Bytes outside and inside tokens.                                        *)
(***************************************************************************)

LEMMA ScalarStartSound ==
  ASSUME NEW q, Sound(q), NEW c \in Marks
  PROVE  Sound(ScalarStart(q, c))
<1> DEFINE m == CHOOSE l \in LiteralOf(c) : TRUE
<1>1. LiteralOf(c) # {} => m \in Modes
  BY DEF LiteralOf, Literals, Modes
<1>2. \/ ScalarStart(q, c) = BeginString(q, FALSE)
      \/ ScalarStart(q, c) = BeginScalar(q, "number", c)
      \/ LiteralOf(c) # {} /\ ScalarStart(q, c) = BeginScalar(q, m, c)
      \/ ScalarStart(q, c) = Fail(q, "INVALID_JSON")
  <2>1. CASE c = Quote \/ c = "-" \/ c \in Digits
    <3>1. LiteralOf(c) = {}
      <4>1. /\ DOMAIN Literals = {"true", "false", "null"}
            /\ Literals["true"] = <<"t", "r", "u", "e">>
            /\ Literals["false"] = <<"f", "a", "l", "s", "e">>
            /\ Literals["null"] = <<"n", "u", "l", "l">>
        BY DEF Literals
      <4>2. \A l \in DOMAIN Literals : Head(Literals[l]) \in {"t", "f", "n"}
        BY <4>1
      <4>3. c \notin {"t", "f", "n"}
        BY <2>1 DEF Quote, Digits, NonZero
      <4> QED
        BY <4>2, <4>3 DEF LiteralOf
    <3> QED
      BY <2>1, <3>1 DEF ScalarStart, Quote, Digits, NonZero
  <2>2. CASE ~(c = Quote \/ c = "-" \/ c \in Digits)
    BY <2>2 DEF ScalarStart
  <2> QED
    BY <2>1, <2>2
<1> HIDE DEF m
<1>3. /\ Sound(BeginString(q, FALSE)) /\ Sound(BeginScalar(q, "number", c))
      /\ LiteralOf(c) # {} => Sound(BeginScalar(q, m, c))
  BY <1>1, BeginStringSound, BeginScalarSound DEF Modes
<1>4. Sound(Fail(q, "INVALID_JSON"))
  BY FailSound DEF Codes
<1> QED
  BY <1>2, <1>3, <1>4

LEMMA ValueStartSound ==
  ASSUME NEW q, Between(q), NEW c \in Marks
  PROVE  Sound(ValueStart(q, c))
<1>1. Sound(BeginObject(q)) /\ Sound(BeginArray(q)) /\ Sound(ScalarStart(q, c))
  BY BeginObjectSound, BeginArraySound, ScalarStartSound DEF Between
<1> QED
  BY <1>1 DEF ValueStart

LEMMA RootStartSound ==
  ASSUME NEW q, Between(q), NEW c \in Marks
  PROVE  Sound(RootStart(q, c))
<1>1. Sound(ValueStart(q, c)) /\ Sound(ScalarStart(q, c)) /\ Sound(q)
  BY ValueStartSound, ScalarStartSound DEF Between
<1>2. Sound(Fail(q, "TYPE_MISMATCH")) /\ Sound(Fail(ScalarStart(q, c), "TYPE_MISMATCH"))
  BY <1>1, FailSound DEF Codes
<1>3. \/ RootStart(q, c) = ValueStart(q, c)
      \/ RootStart(q, c) = ScalarStart(q, c)
      \/ RootStart(q, c) = Fail(q, "TYPE_MISMATCH")
      \/ RootStart(q, c) = Fail(ScalarStart(q, c), "TYPE_MISMATCH")
  BY DEF RootStart
<1> QED
  BY <1>1, <1>2, <1>3

LEMMA ObjectByteSound ==
  ASSUME NEW q, Between(q), q.frames # <<>>, NEW c \in Marks
  PROVE  Sound(ObjectByte(q, c))
<1> DEFINE v == SetTop(q, [Top(q) EXCEPT !.state = "value"])
           k == SetTop(q, [Top(q) EXCEPT !.state = "key", !.comma = TRUE])
<1>1. Sound(v) /\ Sound(k)
  BY StateSound DEF Between
<1>2. \/ ObjectByte(q, c) = BeginString(q, TRUE)
      \/ ObjectByte(q, c) = FinalizeObject(q)
      \/ ObjectByte(q, c) = v
      \/ ObjectByte(q, c) = ValueStart(q, c)
      \/ ObjectByte(q, c) = k
      \/ ObjectByte(q, c) = Fail(q, "INVALID_JSON")
  <2>1. CASE Top(q).state = "key"
    BY <2>1 DEF ObjectByte, Quote
  <2>2. CASE Top(q).state = "comma"
    BY <2>2 DEF ObjectByte
  <2>3. CASE Top(q).state \notin {"key", "comma"}
    BY <2>3 DEF ObjectByte
  <2> QED
    BY <2>1, <2>2, <2>3
<1> HIDE DEF v, k
<1>3. /\ Sound(BeginString(q, TRUE)) /\ Sound(FinalizeObject(q))
      /\ Sound(ValueStart(q, c))
  BY BeginStringSound, FinalizeSound, ValueStartSound DEF Between
<1>4. Sound(Fail(q, "INVALID_JSON"))
  BY FailSound DEF Codes, Between
<1> QED
  BY <1>1, <1>2, <1>3, <1>4

LEMMA ArrayByteSound ==
  ASSUME NEW q, Between(q), q.frames # <<>>, NEW c \in Marks
  PROVE  Sound(ArrayByte(q, c))
<1> DEFINE k == SetTop(q, [Top(q) EXCEPT !.state = "item", !.comma = TRUE])
<1>1. Sound(k)
  BY StateSound DEF Between
<1>2. \/ ArrayByte(q, c) = FinalizeArray(q)
      \/ ArrayByte(q, c) = ValueStart(q, c)
      \/ ArrayByte(q, c) = k
      \/ ArrayByte(q, c) = Fail(q, "INVALID_JSON")
  BY DEF ArrayByte
<1> HIDE DEF k
<1>3. Sound(FinalizeArray(q)) /\ Sound(ValueStart(q, c))
  BY FinalizeSound, ValueStartSound DEF Between
<1>4. Sound(Fail(q, "INVALID_JSON"))
  BY FailSound DEF Codes, Between
<1> QED
  BY <1>1, <1>2, <1>3, <1>4

LEMMA StructureByteSound ==
  ASSUME NEW q, Between(q), NEW c \in Marks
  PROVE  Sound(StructureByte(q, c))
<1>1. \/ StructureByte(q, c) = q
      \/ StructureByte(q, c) = RootStart(q, c)
      \/ StructureByte(q, c) = Fail(q, "INVALID_JSON")
      \/ q.frames # <<>> /\ StructureByte(q, c) = ObjectByte(q, c)
      \/ q.frames # <<>> /\ StructureByte(q, c) = ArrayByte(q, c)
  BY DEF StructureByte
<1>2. /\ Sound(q) /\ Sound(RootStart(q, c))
      /\ q.frames # <<>> => Sound(ObjectByte(q, c)) /\ Sound(ArrayByte(q, c))
  BY RootStartSound, ObjectByteSound, ArrayByteSound DEF Between
<1>3. Sound(Fail(q, "INVALID_JSON"))
  BY FailSound DEF Codes, Between
<1> QED
  BY <1>1, <1>2, <1>3

LEMMA Utf8OfType ==
  ASSUME NEW cp \in Nat
  PROVE  Utf8Of(cp) \in Seq(Marks)
<1>1. "codepoint" \in Marks /\ "cont" \in Marks /\ DecodedPoint(cp) \in Marks
  BY DEF Marks, DecodedPoint, CodePoint
<1> QED
  BY <1>1 DEF Utf8Of, CodePoint

\* A change of the escape state alone.
LEMMA EscapeSound ==
  ASSUME NEW q, Sound(q), NEW r \in Parser, r.frames = q.frames, r.count = q.count,
         r.lex = q.lex, r.capture = q.capture, r.token = q.token, r.code = q.code
  PROVE  Sound(r)
<1>1. q.count <= ArrayCapacity /\ (Ok(r) => Ok(q))
  BY DEF Sound, CountFits, Ok
<1> QED
  BY <1>1, Carried

LEMMA AcceptCodePointSound ==
  ASSUME NEW q, Sound(q), NEW cp \in Nat
  PROVE  Sound(AcceptCodePoint(q, cp))
<1> DEFINE z == [q EXCEPT !.high = 0]
           h == [q EXCEPT !.high = cp]
           wide == <<CodePoint, "cont", "cont", "cont">>
<1>1. q \in Parser /\ 0 \in Nat
  BY DEF Sound
<1>2. /\ z \in Parser /\ z.frames = q.frames /\ z.count = q.count /\ z.lex = q.lex
      /\ z.capture = q.capture /\ z.token = q.token /\ z.code = q.code
  BY <1>1 DEF Parser
<1>3. /\ h \in Parser /\ h.frames = q.frames /\ h.count = q.count /\ h.lex = q.lex
      /\ h.capture = q.capture /\ h.token = q.token /\ h.code = q.code
  BY <1>1 DEF Parser
<1>4. wide \in Seq(Marks)
  <2>1. "codepoint" \in Marks /\ "cont" \in Marks
    BY DEF Marks
  <2> QED
    BY <2>1 DEF CodePoint
<1>5. \/ AcceptCodePoint(q, cp) = Fail(q, "INVALID_JSON")
      \/ AcceptCodePoint(q, cp) = AppendText(z, wide)
      \/ AcceptCodePoint(q, cp) = h
      \/ AcceptCodePoint(q, cp) = AppendText(q, Utf8Of(cp))
  BY DEF AcceptCodePoint
<1> HIDE DEF z, h, wide
<1>6. Sound(z) /\ Sound(h)
  BY <1>2, <1>3, EscapeSound
<1>7. Sound(AppendText(z, wide)) /\ Sound(AppendText(q, Utf8Of(cp)))
  BY <1>4, <1>6, Utf8OfType, AppendTextSound
<1>8. Sound(Fail(q, "INVALID_JSON"))
  BY FailSound DEF Codes
<1> QED
  BY <1>5, <1>6, <1>7, <1>8

\* A token is delivered when it is closed.
LEMMA ClosedSound ==
  ASSUME NEW q, Sound(q)
  PROVE  Between([q EXCEPT !.lex = "none"])
<1> DEFINE r == [q EXCEPT !.lex = "none"]
<1>1. q \in Parser /\ q.count <= ArrayCapacity
  BY DEF Sound, CountFits
<1>2. r \in Parser /\ r.frames = q.frames /\ r.lex = "none" /\ r.count = q.count
  BY <1>1 DEF Parser, Modes
<1> HIDE DEF r
<1>3. Between(r)
  BY <1>1, <1>2, Carried DEF Between
<1> QED
  BY <1>3 DEF r

LEMMA EndStringSound ==
  ASSUME NEW q, Sound(q)
  PROVE  Sound(EndString(q))
<1>1. Sound(DeliverToken([q EXCEPT !.lex = "none"], "string"))
  BY ClosedSound, DeliverTokenSound DEF Between
<1>2. Sound(Fail(q, "INVALID_JSON"))
  BY FailSound DEF Codes
<1> QED
  BY <1>1, <1>2 DEF EndString

LEMMA EndNumberSound ==
  ASSUME NEW q, Sound(q), NEW c \in Marks
  PROVE  Sound(EndNumber(q, c))
<1>1. Between(DeliverToken([q EXCEPT !.lex = "none"], "number"))
  BY ClosedSound, DeliverTokenSound
<1>2. Sound(StructureByte(DeliverToken([q EXCEPT !.lex = "none"], "number"), c))
  BY <1>1, StructureByteSound
<1> QED
  BY <1>1, <1>2 DEF EndNumber, Between

-----------------------------------------------------------------------------
(***************************************************************************)
(* The actions.                                                            *)
(***************************************************************************)

\* An iteration of the loop that leaves a sound parser keeps the invariant.
LEMMA ConsumeInv ==
  ASSUME ParserInv, NEW q, Sound(q), NEW n \in Nat, Consume(q, n)
  PROVE  ParserInv'
<1>1. Sound(p')
  <2>1. p' = [q EXCEPT !.failed = ~Ok(q)] /\ q \in Parser
    BY DEF Consume, Sound
  <2>2. (~Ok(q)) \in BOOLEAN
    BY DEF Ok
  <2>3. /\ p' \in Parser /\ p'.frames = q.frames /\ p'.count = q.count
        /\ p'.lex = q.lex /\ p'.capture = q.capture /\ p'.token = q.token
        /\ p'.code = q.code
    BY <2>1, <2>2 DEF Parser
  <2> QED
    BY <2>3, EscapeSound
<1>2. chunk' \in Seq(Marks)
  <2>1. chunk \in Seq(Marks)
    BY DEF ParserInv
  <2>2. SubSeq(chunk, n + 1, Len(chunk)) \in Seq(Marks) /\ <<>> \in Seq(Marks)
    BY <2>1, PartsOfText
  <2> QED
    BY <2>2 DEF Consume
<1>3. source' \in Streams
  BY DEF ParserInv, Consume
<1> QED
  BY <1>1, <1>2, <1>3 DEF ParserInv, Sound, FramesFit, TokenFits, DepthFits, CountFits,
       HoldsToken, Ok

\* Inside the loop there is a byte to read.
LEMMA LoopingByte ==
  ASSUME ParserInv, Looping
  PROVE  /\ chunk \in Seq(Marks) /\ Len(chunk) >= 1 /\ byte \in Marks /\ Sound(p)
         /\ p \in Parser /\ PlainLength(chunk) \in 0..Len(chunk)
<1>1. chunk \in Seq(Marks) /\ chunk # <<>> /\ Sound(p)
  BY DEF ParserInv, Looping
<1> QED
  BY <1>1, PlainLengthType DEF byte, Sound

LEMMA KeyInChunkInv ==
  ASSUME ParserInv, KeyInChunk
  PROVE  ParserInv'
<1> DEFINE n == PlainLength(chunk)
<1>1. Looping /\ Consume(DeliverKey([p EXCEPT !.lex = "none"], SubSeq(chunk, 1, n)), n + 1)
  BY DEF KeyInChunk, InString
<1>2. n + 1 \in Nat
  BY <1>1, LoopingByte
<1>3. Sound(DeliverKey([p EXCEPT !.lex = "none"], SubSeq(chunk, 1, n)))
  BY <1>1, LoopingByte, ClosedSound, DeliverKeySound DEF Between
<1> QED
  BY <1>1, <1>2, <1>3, ConsumeInv

LEMMA PlainRunInv ==
  ASSUME ParserInv, PlainRun
  PROVE  ParserInv'
<1> DEFINE n == PlainLength(chunk)
<1>1. Looping /\ Consume(AppendText(p, SubSeq(chunk, 1, n)), n)
  BY DEF PlainRun, InString
<1>2. n \in Nat /\ SubSeq(chunk, 1, n) \in Seq(Marks) /\ Sound(p)
  BY <1>1, LoopingByte, PartsOfText
<1>3. Sound(AppendText(p, SubSeq(chunk, 1, n)))
  BY <1>2, AppendTextSound
<1> QED
  BY <1>1, <1>2, <1>3, ConsumeInv

LEMMA StringEndInv ==
  ASSUME ParserInv, StringEnd
  PROVE  ParserInv'
<1>1. Looping /\ Consume(EndString(p), 1)
  BY DEF StringEnd, InString
<1>2. Sound(EndString(p))
  BY <1>1, LoopingByte, EndStringSound
<1> QED
  BY <1>1, <1>2, ConsumeInv

LEMMA ControlInStringInv ==
  ASSUME ParserInv, ControlInString
  PROVE  ParserInv'
<1>1. Looping /\ Consume(Fail(p, "INVALID_JSON"), 1)
  BY DEF ControlInString, InString
<1>2. Sound(Fail(p, "INVALID_JSON"))
  BY <1>1, LoopingByte, FailSound DEF Codes
<1> QED
  BY <1>1, <1>2, ConsumeInv

LEMMA UnescapeType ==
  ASSUME NEW c
  PROVE  Unescape(c) \in Marks
  BY DEF Unescape, Marks

LEMMA SimpleEscapeInv ==
  ASSUME ParserInv, SimpleEscape
  PROVE  ParserInv'
<1>1. Looping /\ Consume(AppendByte(p, Unescape(chunk[2])), 2)
  BY DEF SimpleEscape, InString
<1>2. Sound(AppendByte(p, Unescape(chunk[2])))
  BY <1>1, LoopingByte, UnescapeType, AppendByteSound
<1> QED
  BY <1>1, <1>2, ConsumeInv

LEMMA UnicodeEscapeInv ==
  ASSUME ParserInv, UnicodeEscape
  PROVE  ParserInv'
<1> DEFINE cp == Quad(chunk, 3)
           n  == IF p.high = 0 /\ IsHigh(cp) THEN 12 ELSE 6
           q  == AcceptCodePoint(p, cp)
           r  == IF n = 12 THEN AcceptCodePoint(q, Quad(chunk, 9)) ELSE q
<1>1. Looping /\ UnicodeFast /\ Consume(r, n)
  BY DEF UnicodeEscape, InString
<1>2. chunk \in Seq(Marks) /\ Sound(p)
  BY <1>1, LoopingByte
<1>3. cp \in Nat
  BY <1>1, <1>2, QuadType DEF UnicodeFast
<1>4. n = 12 => Quad(chunk, 9) \in Nat
  BY <1>1, <1>2, QuadType DEF UnicodeFast, PairFollows
<1>5. n \in Nat
  OBVIOUS
<1> HIDE DEF cp, n
<1>6. Sound(q)
  BY <1>2, <1>3, AcceptCodePointSound
<1> HIDE DEF q
<1>7. Sound(r)
  BY <1>4, <1>6, AcceptCodePointSound
<1> HIDE DEF r
<1> QED
  BY <1>1, <1>5, <1>7, ConsumeInv

LEMMA EscapeOpensInv ==
  ASSUME ParserInv, EscapeOpens
  PROVE  ParserInv'
<1> DEFINE q == [p EXCEPT !.escape = TRUE]
<1>1. Looping /\ Consume(q, 1)
  BY DEF EscapeOpens, InString
<1>2. p \in Parser /\ Sound(p)
  BY <1>1, LoopingByte
<1>3. /\ q \in Parser /\ q.frames = p.frames /\ q.count = p.count /\ q.lex = p.lex
      /\ q.capture = p.capture /\ q.token = p.token /\ q.code = p.code
  BY <1>2 DEF Parser
<1> HIDE DEF q
<1>4. Sound(q)
  BY <1>2, <1>3, EscapeSound
<1> QED
  BY <1>1, <1>4, ConsumeInv

LEMMA EscapedByteInv ==
  ASSUME ParserInv, EscapedByte
  PROVE  ParserInv'
<1> DEFINE q == [p EXCEPT !.escape = FALSE]
           u == [q EXCEPT !.need = 4, !.acc = 0]
           r == CASE byte = "u" -> u
                  [] byte \in SimpleEscapes -> AppendByte(q, Unescape(byte))
                  [] OTHER -> Fail(q, "INVALID_JSON")
<1>1. Looping /\ Consume(r, 1)
  BY DEF EscapedByte
<1>2. p \in Parser /\ Sound(p) /\ 4 \in Nat /\ 0 \in Nat
  BY <1>1, LoopingByte
<1>3. /\ q \in Parser /\ q.frames = p.frames /\ q.count = p.count /\ q.lex = p.lex
      /\ q.capture = p.capture /\ q.token = p.token /\ q.code = p.code
  BY <1>2 DEF Parser
<1>4. \/ r = u
      \/ r = AppendByte(q, Unescape(byte))
      \/ r = Fail(q, "INVALID_JSON")
  BY DEF SimpleEscapes, Quote, Backslash
<1> HIDE DEF q
<1>5. Sound(q)
  BY <1>2, <1>3, EscapeSound
<1>6. /\ u \in Parser /\ u.frames = q.frames /\ u.count = q.count /\ u.lex = q.lex
      /\ u.capture = q.capture /\ u.token = q.token /\ u.code = q.code
  BY <1>2, <1>3 DEF Parser
<1> HIDE DEF u
<1>7. Sound(u)
  BY <1>5, <1>6, EscapeSound
<1>8. Sound(AppendByte(q, Unescape(byte))) /\ Sound(Fail(q, "INVALID_JSON"))
  BY <1>5, UnescapeType, AppendByteSound, FailSound DEF Codes
<1> HIDE DEF r
<1>9. Sound(r)
  BY <1>4, <1>7, <1>8
<1> QED
  BY <1>1, <1>9, ConsumeInv

LEMMA HexDigitInv ==
  ASSUME ParserInv, HexDigit
  PROVE  ParserInv'
<1>1. Looping /\ p.need # 0
  BY DEF HexDigit
<1>2. p \in Parser /\ Sound(p) /\ p.need \in Nat /\ p.acc \in Nat
  BY <1>1, LoopingByte DEF Parser
<1>3. CASE byte \notin HexDigits
  <2>1. Consume(Fail(p, "INVALID_JSON"), 1)
    BY <1>3 DEF HexDigit
  <2>2. Sound(Fail(p, "INVALID_JSON"))
    BY <1>2, FailSound DEF Codes
  <2> QED
    BY <2>1, <2>2, ConsumeInv
<1>4. CASE byte \in HexDigits
  <2> DEFINE cp == p.acc * 16 + HexValue(byte)
             q  == [p EXCEPT !.acc = cp, !.need = p.need - 1]
             z  == [q EXCEPT !.acc = 0]
  <2>1. Consume(IF q.need = 0 THEN AcceptCodePoint(z, cp) ELSE q, 1)
    BY <1>4 DEF HexDigit
  <2>2. cp \in Nat /\ p.need - 1 \in Nat /\ 0 \in Nat
    BY <1>1, <1>2, <1>4, HexValueType
  <2> HIDE DEF cp
  <2>3. /\ q \in Parser /\ q.frames = p.frames /\ q.count = p.count /\ q.lex = p.lex
        /\ q.capture = p.capture /\ q.token = p.token /\ q.code = p.code
    <3> DEFINE left == p.need - 1
    <3>1. left \in Nat
      BY <2>2
    <3> HIDE DEF left
    <3>2. q = [p EXCEPT !.acc = cp, !.need = left]
      BY DEF left
    <3> HIDE DEF q
    <3> QED
      BY <1>2, <2>2, <3>1, <3>2 DEF Parser
  <2> HIDE DEF q
  <2>4. Sound(q)
    BY <1>2, <2>3, EscapeSound
  <2>5. /\ z \in Parser /\ z.frames = q.frames /\ z.count = q.count /\ z.lex = q.lex
        /\ z.capture = q.capture /\ z.token = q.token /\ z.code = q.code
    BY <2>2, <2>3 DEF Parser
  <2> HIDE DEF z
  <2>6. Sound(z)
    BY <2>4, <2>5, EscapeSound
  <2>7. Sound(AcceptCodePoint(z, cp))
    BY <2>2, <2>6, AcceptCodePointSound
  <2> DEFINE r == IF q.need = 0 THEN AcceptCodePoint(z, cp) ELSE q
  <2>8. Sound(r) /\ Consume(r, 1)
    BY <2>1, <2>4, <2>7
  <2> HIDE DEF r
  <2> QED
    BY <2>8, ConsumeInv
<1> QED
  BY <1>3, <1>4

LEMMA NumberRunInv ==
  ASSUME ParserInv, NumberRun
  PROVE  ParserInv'
<1> DEFINE n == RunLength(chunk, NumberBytes)
           q == ScratchAppendBytes(p, SubSeq(chunk, 1, n))
           r == DeliverToken([q EXCEPT !.lex = "none"], "number")
<1>1. Looping
  BY DEF NumberRun
<1>2. \/ Consume(q, n)
      \/ Consume(r, n)
      \/ Consume(r, n + 1)
  <2>1. CASE ~Ok(q) \/ n = Len(chunk)
    <3>1. ~(Ok(q) /\ n < Len(chunk))
      <4>1. n \in 0..Len(chunk) /\ chunk \in Seq(Marks)
        BY <1>1, LoopingByte, RunLengthType
      <4> HIDE DEF n
      <4> QED
        BY <2>1, <4>1
    <3> QED
      BY <2>1, <3>1 DEF NumberRun
  <2>2. CASE Ok(q) /\ n # Len(chunk)
    <3>1. n < Len(chunk)
      <4>1. n \in 0..Len(chunk) /\ chunk \in Seq(Marks)
        BY <1>1, LoopingByte, RunLengthType
      <4> HIDE DEF n
      <4> QED
        BY <2>2, <4>1
    <3> QED
      BY <2>2, <3>1 DEF NumberRun
  <2> QED
    BY <2>1, <2>2
<1>3. /\ n \in Nat /\ n + 1 \in Nat /\ SubSeq(chunk, 1, n) \in Seq(Marks)
      /\ Sound(p)
  <2>1. n \in 0..Len(chunk) /\ chunk \in Seq(Marks) /\ Sound(p)
    BY <1>1, LoopingByte, RunLengthType
  <2> HIDE DEF n
  <2> QED
    BY <2>1, PartsOfText
<1>4. Sound(q)
  BY <1>3, ScratchAppendBytesSound
<1> HIDE DEF n, q
<1>5. Sound(r)
  BY <1>4, ClosedSound, DeliverTokenSound DEF Between
<1> HIDE DEF r
<1> QED
  BY <1>2, <1>3, <1>4, <1>5, ConsumeInv

LEMMA NumberEndInv ==
  ASSUME ParserInv, NumberEnd
  PROVE  ParserInv'
<1>1. Looping /\ Consume(EndNumber(p, byte), 1)
  BY DEF NumberEnd
<1>2. Sound(EndNumber(p, byte))
  BY <1>1, LoopingByte, EndNumberSound
<1> QED
  BY <1>1, <1>2, ConsumeInv

LEMMA LiteralByteInv ==
  ASSUME ParserInv, LiteralByte
  PROVE  ParserInv'
<1> DEFINE q == ScratchAppend(p, byte)
           r == DeliverToken([q EXCEPT !.lex = "none"], p.lex)
<1>1. Looping
  BY DEF LiteralByte
<1>2. \/ Consume(Fail(p, "INVALID_JSON"), 1)
      \/ Consume(q, 1)
      \/ Consume(r, 1)
  BY DEF LiteralByte
<1>3. Sound(Fail(p, "INVALID_JSON"))
  BY <1>1, LoopingByte, FailSound DEF Codes
<1>4. Sound(q)
  BY <1>1, LoopingByte, ScratchAppendSound
<1> HIDE DEF q
<1>5. Sound(r)
  BY <1>4, ClosedSound, DeliverTokenSound DEF Between
<1> HIDE DEF r
<1> QED
  BY <1>2, <1>3, <1>4, <1>5, ConsumeInv

LEMMA StructureInv ==
  ASSUME ParserInv, Structure
  PROVE  ParserInv'
<1>1. Looping /\ p.lex = "none" /\ Consume(StructureByte(p, byte), 1)
  BY DEF Structure
<1>2. Sound(StructureByte(p, byte))
  BY <1>1, LoopingByte, StructureByteSound DEF Between
<1> QED
  BY <1>1, <1>2, ConsumeInv

\* An action that replaces the parser by a sound one keeps the invariant.
LEMMA ReplacedInv ==
  ASSUME NEW q, Sound(q), p' = q, source' \in Streams, chunk' \in Seq(Marks)
  PROVE  ParserInv'
<1>1. Sound(p')
  OBVIOUS
<1> QED
  BY <1>1 DEF ParserInv, Sound, FramesFit, TokenFits, DepthFits, CountFits, HoldsToken, Ok

LEMMA FeedInv ==
  ASSUME ParserInv, Feed \/ StopFeed
  PROVE  ParserInv'
<1>1. source \in Streams /\ Sound(p)
  BY DEF ParserInv
<1>2. p' = p /\ source' = source /\ (chunk' = <<>> \/ chunk' \in source)
  BY DEF Feed, StopFeed
<1>3. chunk' \in Seq(Marks)
  <2>1. CASE chunk' = <<>>
    BY <2>1
  <2>2. CASE chunk' \in source
    BY <1>1, <2>2, ChunkIsText
  <2> QED
    BY <1>2, <2>1, <2>2
<1> QED
  BY <1>1, <1>2, <1>3, ReplacedInv

LEMMA FinishInv ==
  ASSUME ParserInv, Finish
  PROVE  ParserInv'
<1> DEFINE d == DeliverToken([p EXCEPT !.lex = "none"], "number")
<1>1. source \in Streams /\ chunk \in Seq(Marks) /\ Sound(p)
  BY DEF ParserInv
<1>2. Sound(d)
  BY <1>1, ClosedSound, DeliverTokenSound DEF Between
<1>3. /\ source' = source /\ chunk' = chunk
      /\ \/ p' = p \/ p' = d
         \/ p' = Fail(p, "INVALID_JSON") \/ p' = Fail(d, "INVALID_JSON")
  BY DEF Finish
<1> HIDE DEF d
<1>4. Sound(Fail(p, "INVALID_JSON")) /\ Sound(Fail(d, "INVALID_JSON"))
  BY <1>1, <1>2, FailSound DEF Codes
<1> QED
  BY <1>1, <1>2, <1>3, <1>4, ReplacedInv

LEMMA InitStateSound ==
  ASSUME NEW validate \in BOOLEAN
  PROVE  Sound(InitState(validate))
<1> DEFINE q == InitState(validate)
<1>1. <<>> \in Seq(Frame) /\ <<>> \in Seq(Marks) /\ 0 \in Nat
  OBVIOUS
<1>2. q \in Parser /\ q.frames = <<>> /\ q.lex = "none" /\ q.count = 0
  BY <1>1 DEF InitState, Parser, Codes, Modes
<1> HIDE DEF q
<1>3. Len(q.frames) = 0 /\ 0 * FrameBytes = 0
  BY <1>2, ParserAssumption
<1>4. FramesFit(q) /\ DepthFits(q) /\ CountFits(q) /\ TokenFits(q)
  BY <1>2, <1>3, ParserAssumption
     DEF FramesFit, DepthFits, CountFits, TokenFits, HoldsToken
<1>5. Sound(q)
  BY <1>2, <1>4 DEF Sound
<1> QED
  BY <1>5 DEF q

LEMMA RestartInv ==
  ASSUME ParserInv, Restart
  PROVE  ParserInv'
<1>1. /\ source' = source /\ chunk' = <<>> /\ p' = InitState(p.validate)
      /\ source \in Streams /\ p \in Parser
  BY DEF Restart, ParserInv, Sound
<1>2. p.validate \in BOOLEAN /\ <<>> \in Seq(Marks)
  BY <1>1 DEF Parser
<1>3. Sound(InitState(p.validate))
  BY <1>2, InitStateSound
<1> QED
  BY <1>1, <1>2, <1>3, ReplacedInv

-----------------------------------------------------------------------------
(***************************************************************************)
(* The invariant.                                                          *)
(***************************************************************************)

LEMMA ParserInit ==
  ASSUME Init
  PROVE  ParserInv
<1>1. PICK validate \in BOOLEAN : p = InitState(validate)
  BY DEF Init
<1>2. Sound(p)
  BY <1>1, InitStateSound
<1>3. <<>> \in Seq(Marks)
  OBVIOUS
<1> QED
  BY <1>2, <1>3 DEF Init, ParserInv

LEMMA ParserNext ==
  ASSUME ParserInv, [Next]_vars
  PROVE  ParserInv'
<1>1. CASE Feed \/ StopFeed
  BY <1>1, FeedInv
<1>2. CASE Finish
  BY <1>2, FinishInv
<1>3. CASE Restart
  BY <1>3, RestartInv
<1>4. CASE KeyInChunk
  BY <1>4, KeyInChunkInv
<1>5. CASE PlainRun
  BY <1>5, PlainRunInv
<1>6. CASE StringEnd
  BY <1>6, StringEndInv
<1>7. CASE ControlInString
  BY <1>7, ControlInStringInv
<1>8. CASE SimpleEscape
  BY <1>8, SimpleEscapeInv
<1>9. CASE UnicodeEscape
  BY <1>9, UnicodeEscapeInv
<1>10. CASE EscapeOpens
  BY <1>10, EscapeOpensInv
<1>11. CASE EscapedByte
  BY <1>11, EscapedByteInv
<1>12. CASE HexDigit
  BY <1>12, HexDigitInv
<1>13. CASE NumberRun
  BY <1>13, NumberRunInv
<1>14. CASE NumberEnd
  BY <1>14, NumberEndInv
<1>15. CASE LiteralByte
  BY <1>15, LiteralByteInv
<1>16. CASE Structure
  BY <1>16, StructureInv
<1>17. CASE UNCHANGED vars
  <2>1. p' = p /\ source' = source /\ chunk' = chunk
    BY <1>17 DEF vars
  <2> QED
    BY <2>1, ReplacedInv DEF ParserInv
<1> QED
  BY <1>1, <1>2, <1>3, <1>4, <1>5, <1>6, <1>7, <1>8, <1>9, <1>10, <1>11, <1>12, <1>13,
     <1>14, <1>15, <1>16, <1>17 DEF Next

\* However documents are cut and however deep they nest, the frames, the
\* token and its terminator stay inside the workspace and the nesting limit
\* is kept, for every workspace, frame size and depth (token_limit,
\* scratch_reserve, push_frame).
THEOREM WorkspaceIsKept == Spec => []WorkspaceFits
<1>1. Init => ParserInv
  BY ParserInit
<1>2. ParserInv /\ [Next]_vars => ParserInv'
  BY ParserNext
<1>3. ParserInv => WorkspaceFits
  BY DEF ParserInv, Sound, FramesFit, TokenFits, DepthFits, WorkspaceFits
<1> QED
  BY <1>1, <1>2, <1>3, PTL DEF Spec

\* A mapped array never holds more items than its capacity, under every
\* overflow policy (array_append_i64).
THEOREM ArrayIsKept == Spec => []ArrayFits
<1>1. Init => ParserInv
  BY ParserInit
<1>2. ParserInv /\ [Next]_vars => ParserInv'
  BY ParserNext
<1>3. ParserInv => ArrayFits
  BY DEF ParserInv, Sound, CountFits, ArrayFits
<1> QED
  BY <1>1, <1>2, <1>3, PTL DEF Spec

-----------------------------------------------------------------------------
(***************************************************************************)
(* Runs of the grammar's automaton.                                        *)
(***************************************************************************)

\* Induction up to n, for sets of naturals.
LEMMA InductTo ==
  ASSUME NEW n \in Nat, NEW T, 0 \in T, \A k \in 0..(n - 1) : k \in T => k + 1 \in T
  PROVE  \A k \in 0..n : k \in T
<1> DEFINE Bad == {k \in 0..n : k \notin T}
<1>1. SUFFICES ASSUME Bad # {} PROVE FALSE
  OBVIOUS
<1>2. PICK x \in Bad : \A y \in Bad : x <= y
  <2>1. Bad \subseteq Nat
    OBVIOUS
  <2> HIDE DEF Bad
  <2> QED
    BY <1>1, <2>1, LeastIndex
<1>3. x \in 1..n /\ x - 1 \notin Bad
  BY <1>2
<1>4. x - 1 \in T /\ x - 1 \in 0..(n - 1) /\ (x - 1) + 1 = x
  BY <1>3
<1> QED
  BY <1>2, <1>4

\* The states an automaton runs through, from the one before the first byte.
Trace(f, g, s) ==
  /\ f[0] = g
  /\ \A k \in 1..Len(s) : f[k] = GrammarStep(f[k - 1], s[k])

\* Every run has its states.
LEMMA RunTrace ==
  ASSUME NEW g, NEW B, NEW s \in Seq(B)
  PROVE  \E f : Trace(f, g, s) /\ GrammarRun(g, s) = f[Len(s)]
<1> DEFINE n == Len(s)
           Rule(f) == [k \in 0..n |-> IF k = 0 THEN g ELSE GrammarStep(f[k - 1], s[k])]
           run == CHOOSE f : f = Rule(f)
           Upto(f, j) == /\ f[0] = g
                         /\ \A k \in 1..j : f[k] = GrammarStep(f[k - 1], s[k])
           T == {j \in 0..n : \E f : Upto(f, j)}
<1>0. n \in Nat
  OBVIOUS
<1>1. GrammarRun(g, s) = run[n]
  BY DEF GrammarRun
<1>2. \A j \in 0..n : j \in T
  <2>1. 0 \in T
    <3>1. Upto([k \in {0} |-> g], 0)
      OBVIOUS
    <3>2. \E f : Upto(f, 0)
      <4> HIDE DEF Upto
      <4> QED
        BY <3>1
    <3> QED
      BY <1>0, <3>2
  <2>2. ASSUME NEW j \in 0..(n - 1), j \in T PROVE j + 1 \in T
    <3>1. PICK f : Upto(f, j)
      BY <2>2
    <3> DEFINE e == [k \in 0..(j + 1) |-> IF k = j + 1 THEN GrammarStep(f[j], s[k]) ELSE f[k]]
    <3>2. e[0] = g
      BY <3>1, <1>0
    <3>3. ASSUME NEW k \in 1..(j + 1) PROVE e[k] = GrammarStep(e[k - 1], s[k])
      <4>1. CASE k = j + 1
        BY <4>1, <1>0
      <4>2. CASE k # j + 1
        <5>1. k \in 1..j /\ k - 1 \in 0..j
          BY <4>2, <1>0
        <5>2. e[k] = f[k] /\ e[k - 1] = f[k - 1]
          BY <5>1, <1>0
        <5> QED
          BY <3>1, <5>1, <5>2
      <4> QED
        BY <4>1, <4>2
    <3> HIDE DEF e
    <3>4. Upto(e, j + 1)
      BY <3>2, <3>3
    <3> QED
      BY <1>0, <3>4
  <2> HIDE DEF T
  <2> QED
    BY <1>0, <2>1, <2>2, InductTo
<1>3. PICK f : Upto(f, n)
  BY <1>0, <1>2
<1> DEFINE e == [k \in 0..n |-> f[k]]
<1>4. e = Rule(e)
  <2>1. ASSUME NEW k \in 0..n
        PROVE  e[k] = IF k = 0 THEN g ELSE GrammarStep(e[k - 1], s[k])
    <3>1. CASE k = 0
      BY <1>3, <3>1
    <3>2. CASE k # 0
      <4>1. k \in 1..n /\ k - 1 \in 0..n
        BY <3>2, <1>0
      <4> QED
        BY <4>1, <3>2, <1>3
    <3> QED
      BY <3>1, <3>2
  <2> QED
    BY <2>1
<1>5. run = Rule(run)
  <2> HIDE DEF Rule
  <2> QED
    BY <1>4
<1> HIDE DEF run
<1>6. run[0] = g
  BY <1>0, <1>5
<1>7. ASSUME NEW k \in 1..n PROVE run[k] = GrammarStep(run[k - 1], s[k])
  <2>1. k \in 0..n /\ k # 0
    BY <1>0
  <2>2. Rule(run)[k] = GrammarStep(run[k - 1], s[k])
    BY <2>1
  <2> QED
    BY <1>5, <2>2
<1> QED
  BY <1>1, <1>6, <1>7 DEF Trace

\* A run over nothing, over one more byte, over two parts.
LEMMA RunNothing ==
  ASSUME NEW g
  PROVE  GrammarRun(g, <<>>) = g
<1>1. <<>> \in Seq({}) /\ Len(<<>>) = 0
  OBVIOUS
<1> QED
  BY <1>1, RunTrace DEF Trace

LEMMA RunConcat ==
  ASSUME NEW g, NEW B, NEW s \in Seq(B), NEW t \in Seq(B)
  PROVE  GrammarRun(g, s \o t) = GrammarRun(GrammarRun(g, s), t)
<1> DEFINE m == Len(s)
           n == Len(t)
<1>1. s \o t \in Seq(B) /\ m \in Nat /\ n \in Nat /\ Len(s \o t) = m + n
  OBVIOUS
<1>2. PICK a : Trace(a, g, s \o t) /\ GrammarRun(g, s \o t) = a[m + n]
  BY <1>1, RunTrace
<1>3. PICK b : Trace(b, g, s) /\ GrammarRun(g, s) = b[m]
  BY RunTrace
<1>4. PICK c : Trace(c, b[m], t) /\ GrammarRun(b[m], t) = c[n]
  BY RunTrace
<1>5. \A k \in 0..m : a[k] = b[k]
  <2> DEFINE T == {k \in 0..m : a[k] = b[k]}
  <2>1. 0 \in T
    BY <1>1, <1>2, <1>3 DEF Trace
  <2>2. ASSUME NEW k \in 0..(m - 1), k \in T PROVE k + 1 \in T
    <3>1. k + 1 \in 1..(m + n) /\ k + 1 \in 1..m /\ (k + 1) - 1 = k
      BY <1>1
    <3>2. (s \o t)[k + 1] = s[k + 1]
      BY <3>1
    <3>3. a[k + 1] = GrammarStep(a[k], s[k + 1])
      BY <1>1, <1>2, <3>1, <3>2 DEF Trace
    <3>4. b[k + 1] = GrammarStep(b[k], s[k + 1])
      BY <1>3, <3>1 DEF Trace
    <3> QED
      BY <2>2, <3>1, <3>3, <3>4
  <2> HIDE DEF T
  <2>3. \A k \in 0..m : k \in T
    BY <1>1, <2>1, <2>2, InductTo
  <2> QED
    BY <2>3 DEF T
<1>6. \A k \in 0..n : a[m + k] = c[k]
  <2> DEFINE T == {k \in 0..n : a[m + k] = c[k]}
  <2>1. 0 \in T
    BY <1>1, <1>4, <1>5 DEF Trace
  <2>2. ASSUME NEW k \in 0..(n - 1), k \in T PROVE k + 1 \in T
    <3>1. /\ m + k + 1 \in 1..(m + n) /\ k + 1 \in 1..n
          /\ (k + 1) - 1 = k /\ (m + k + 1) - 1 = m + k
      BY <1>1
    <3>2. (s \o t)[m + k + 1] = t[k + 1]
      BY <3>1
    <3>3. a[m + k + 1] = GrammarStep(a[m + k], t[k + 1])
      BY <1>1, <1>2, <3>1, <3>2 DEF Trace
    <3>4. c[k + 1] = GrammarStep(c[k], t[k + 1])
      BY <1>4, <3>1 DEF Trace
    <3>5. a[m + (k + 1)] = c[k + 1]
      <4>1. m + (k + 1) = m + k + 1
        BY <1>1, <3>1
      <4> QED
        BY <2>2, <3>3, <3>4, <4>1
    <3> QED
      BY <3>1, <3>5, <1>1
  <2> HIDE DEF T
  <2>3. \A k \in 0..n : k \in T
    BY <1>1, <2>1, <2>2, InductTo
  <2> QED
    BY <2>3 DEF T
<1> QED
  BY <1>1, <1>2, <1>3, <1>4, <1>6

LEMMA RunOne ==
  ASSUME NEW g, NEW B, NEW c \in B
  PROVE  GrammarRun(g, <<c>>) = GrammarStep(g, c)
<1>1. <<c>> \in Seq(B) /\ Len(<<c>>) = 1 /\ <<c>>[1] = c
  OBVIOUS
<1>2. PICK f : Trace(f, g, <<c>>) /\ GrammarRun(g, <<c>>) = f[1]
  BY <1>1, RunTrace
<1>3. f[1] = GrammarStep(f[1 - 1], <<c>>[1]) /\ f[0] = g
  BY <1>1, <1>2 DEF Trace
<1> QED
  BY <1>1, <1>2, <1>3

LEMMA RunAppend ==
  ASSUME NEW g, NEW B, NEW s \in Seq(B), NEW c \in B
  PROVE  GrammarRun(g, Append(s, c)) = GrammarStep(GrammarRun(g, s), c)
<1> DEFINE t == <<c>>
<1>1. Append(s, c) = s \o t /\ t \in Seq(B)
  OBVIOUS
<1>3. GrammarRun(GrammarRun(g, s), t) = GrammarStep(GrammarRun(g, s), c)
  BY RunOne
<1> HIDE DEF t
<1>2. GrammarRun(g, s \o t) = GrammarRun(GrammarRun(g, s), t)
  BY <1>1, RunConcat
<1> QED
  BY <1>1, <1>2, <1>3

-----------------------------------------------------------------------------
(***************************************************************************)
(* The automaton.                                                          *)
(***************************************************************************)

Symbols == Marks \cup {Unpaired}
Letters == {"t", "r", "u", "e", "f", "a", "l", "s", "n"}
Places == {"root", "done", "firstKey", "key", "colon", "value", "after", "firstItem", "item"}
Ctls == Places \cup NumberStates \cup {"string", "escape", "hex", "literal", "dead"}

Automaton ==
  [ctl: Ctls, stack: Seq({"object", "array"}), want: Seq(Letters), left: Int, cp: Int,
   key: BOOLEAN, spell: BOOLEAN, text: Seq(Symbols), high: BOOLEAN, paired: BOOLEAN,
   past: BOOLEAN]

\* What no byte inside a token changes.
Within(g, h) ==
  /\ h \in Automaton
  /\ h.stack = g.stack /\ h.key = g.key /\ h.spell = g.spell /\ h.past = g.past

LEMMA StartFacts ==
  ASSUME NEW spell \in BOOLEAN
  PROVE  /\ GrammarStart(spell) \in Automaton
         /\ GrammarStart(spell).ctl = "root" /\ GrammarStart(spell).stack = <<>>
         /\ GrammarStart(spell).spell = spell /\ ~GrammarStart(spell).past
<1>1. <<>> \in Seq(Letters) /\ <<>> \in Seq(Symbols) /\ <<>> \in Seq({"object", "array"})
  OBVIOUS
<1> QED
  BY <1>1 DEF GrammarStart, Automaton, Ctls, Places

\* A dead automaton.
LEMMA DeadFacts ==
  ASSUME NEW g \in Automaton
  PROVE  /\ Dead(g) \in Automaton /\ Dead(g).ctl = "dead" /\ Dead(g).stack = <<>>
         /\ Dead(g).spell = g.spell /\ Dead(g).past = g.past
         /\ Dead(g).paired = g.paired
<1> DEFINE e == GrammarStart(g.spell)
<1>1. g.spell \in BOOLEAN /\ g.past \in BOOLEAN /\ g.paired \in BOOLEAN
  BY DEF Automaton
<1>2. e \in Automaton /\ e.stack = <<>> /\ e.spell = g.spell
  BY <1>1, StartFacts
<1>3. Dead(g) = [e EXCEPT !.ctl = "dead", !.paired = g.paired, !.past = g.past]
  BY DEF Dead
<1> HIDE DEF e
<1> QED
  BY <1>1, <1>2, <1>3 DEF Automaton, Ctls

\* One symbol of a key's spelling.
LEMMA SpellFacts ==
  ASSUME NEW g \in Automaton, NEW sym \in Symbols
  PROVE  /\ Within(g, Spell(g, sym))
         /\ Spell(g, sym).ctl = g.ctl /\ Spell(g, sym).left = g.left /\ Spell(g, sym).cp = g.cp
         /\ Spell(g, sym).high = g.high /\ Spell(g, sym).paired = g.paired
         /\ Spell(g, sym).text = IF g.key /\ g.spell THEN Append(g.text, sym) ELSE g.text
<1>1. g.text \in Seq(Symbols)
  BY DEF Automaton
<1>2. Append(g.text, sym) \in Seq(Symbols)
  BY <1>1
<1> QED
  BY <1>2 DEF Spell, Automaton, Within

\* A high surrogate that stays alone.
LEMMA BreakFacts ==
  ASSUME NEW g \in Automaton
  PROVE  /\ Within(g, BreakPair(g))
         /\ BreakPair(g).ctl = g.ctl /\ BreakPair(g).left = g.left /\ BreakPair(g).cp = g.cp
         /\ ~BreakPair(g).high
         /\ BreakPair(g).paired <=> g.paired /\ ~g.high
         /\ BreakPair(g).paired => BreakPair(g).text = g.text
<1> DEFINE b == [g EXCEPT !.high = FALSE, !.paired = FALSE]
<1>1. /\ Within(g, b) /\ b.ctl = g.ctl /\ b.left = g.left /\ b.cp = g.cp
      /\ ~b.high /\ ~b.paired
  BY DEF Automaton, Within
<1>2. Unpaired \in Symbols
  BY DEF Symbols
<1>3. b \in Automaton
  BY <1>1 DEF Within
<1> HIDE DEF b
<1>4. CASE g.high
  <2>1. BreakPair(g) = Spell(b, Unpaired)
    BY <1>4 DEF BreakPair, b
  <2> QED
    BY <1>1, <1>2, <1>3, <1>4, <2>1, SpellFacts DEF Within
<1>5. CASE ~g.high
  BY <1>5 DEF BreakPair, Within, Automaton
<1> QED
  BY <1>4, <1>5

\* The control that follows a value.
After(stack) == IF stack = <<>> THEN "done" ELSE "after"

LEMMA EndFacts ==
  ASSUME NEW g \in Automaton
  PROVE  /\ Within(g, EndValue(g)) /\ EndValue(g).ctl = After(g.stack)
         /\ EndValue(g).high = g.high /\ EndValue(g).paired = g.paired
         /\ EndValue(g).text = g.text
  BY DEF EndValue, Automaton, Within, After, Ctls, Places

\* Moving to another control.
LEMMA CtlFacts ==
  ASSUME NEW g \in Automaton, NEW ctl \in Ctls
  PROVE  LET h == [g EXCEPT !.ctl = ctl] IN
         /\ Within(g, h) /\ h.ctl = ctl /\ h.high = g.high /\ h.paired = g.paired
         /\ h.text = g.text /\ h.left = g.left /\ h.cp = g.cp /\ h.want = g.want
  BY DEF Automaton, Within

LEMMA CloseFacts ==
  ASSUME NEW g \in Automaton
  PROVE  /\ Close(g) \in Automaton
         /\ Close(g).stack = Front(g.stack) /\ Close(g).ctl = After(Front(g.stack))
         /\ Close(g).spell = g.spell /\ Close(g).past = g.past
         /\ Close(g).paired = g.paired
<1> DEFINE s == Front(g.stack)
<1>1. s \in Seq({"object", "array"})
  BY DEF Automaton, Front
<1> HIDE DEF s
<1> DEFINE h == [g EXCEPT !.stack = s]
<1>2. h \in Automaton /\ h.stack = s /\ h.spell = g.spell /\ h.past = g.past /\ h.paired = g.paired
  BY <1>1 DEF Automaton
<1>3. Close(g) = EndValue(h)
  BY DEF Close, s
<1> HIDE DEF h
<1> QED
  BY <1>2, <1>3, EndFacts DEF Within, s

\* The bytes of a chunk are symbols.
LEMMA MarksAreSymbols == Marks \subseteq Symbols
  BY DEF Symbols

-----------------------------------------------------------------------------
(***************************************************************************)
(* Numbers.                                                                *)
(***************************************************************************)

\* The control of the automaton after the first byte of a number and after
\* one more byte that may stand in a number.
NumberHead(c) == CASE c = "-" -> "minus" [] c = "0" -> "zero" [] OTHER -> "int"
NumberNext(s, c) ==
  IF s = "dead" \/ NumberStep(s, c) = "end" THEN "dead" ELSE NumberStep(s, c)

\* A token as begin_number_lex and the number branch of feed_bytes collect it.
Numeric(t) == /\ t # <<>> /\ t[1] \in Digits \cup {"-"}
              /\ \A i \in 1..Len(t) : t[i] \in NumberBytes

\* The controls it takes the automaton through.
NumberTrace(m, t) ==
  /\ m[1] = NumberHead(t[1])
  /\ \A k \in 2..Len(t) : m[k] = NumberNext(m[k - 1], t[k])

LEMMA NumberNextType ==
  ASSUME NEW s \in NumberStates \cup {"dead"}, NEW c
  PROVE  NumberNext(s, c) \in NumberStates \cup {"dead"}
  BY DEF NumberNext, NumberStep, NumberStates

\* Where digits end.
LEMMA DigitsEnd ==
  ASSUME NEW B, NEW t \in Seq(B), NEW i \in 1..(Len(t) + 1)
  PROVE  /\ AfterDigits(t, i) \in i..(Len(t) + 1)
         /\ \A k \in i..(AfterDigits(t, i) - 1) : t[k] \in Digits
         /\ AfterDigits(t, i) = Len(t) + 1 \/ t[AfterDigits(t, i)] \notin Digits
<1> DEFINE Stops == {k \in i..Len(t) : t[k] \notin Digits}
<1>0. Len(t) \in Nat
  OBVIOUS
<1>1. \E j \in i..(Len(t) + 1) : /\ \A k \in i..(j - 1) : t[k] \in Digits
                                 /\ j = Len(t) + 1 \/ t[j] \notin Digits
  <2>1. CASE Stops = {}
    <3>1. \A k \in i..((Len(t) + 1) - 1) : t[k] \in Digits
      BY <1>0, <2>1
    <3> QED
      BY <1>0, <3>1
  <2>2. CASE Stops # {}
    <3>1. PICK x \in Stops : \A y \in Stops : x <= y
      <4>1. Stops \subseteq Nat
        BY <1>0
      <4> HIDE DEF Stops
      <4> QED
        BY <2>2, <4>1, LeastIndex
    <3>2. x \in i..(Len(t) + 1) /\ t[x] \notin Digits /\ \A k \in i..(x - 1) : t[k] \in Digits
      BY <1>0, <3>1
    <3> QED
      BY <3>2
  <2> QED
    BY <2>1, <2>2
<1> QED
  BY <1>1 DEF AfterDigits

\* Digits keep the automaton where digits may go on.
LEMMA DigitsKeep ==
  ASSUME NEW B, NEW t \in Seq(B), NEW m, NumberTrace(m, t), NEW i \in 1..Len(t),
         NEW j \in (i + 1)..(Len(t) + 1), m[i] \in {"int", "frac", "power"},
         \A k \in i..(j - 1) : t[k] \in Digits
  PROVE  m[j - 1] = m[i]
<1> DEFINE n == (j - 1) - i
           T == {k \in 0..n : m[i + k] = m[i]}
<1>0. n \in Nat /\ Len(t) \in Nat /\ i + n = j - 1
  OBVIOUS
<1>1. 0 \in T
  BY <1>0
<1>2. ASSUME NEW k \in 0..(n - 1), k \in T PROVE k + 1 \in T
  <2>1. /\ i + k + 1 \in 2..Len(t) /\ (i + k + 1) - 1 = i + k /\ i + (k + 1) = i + k + 1
        /\ i + k + 1 \in i..(j - 1) /\ k + 1 \in 0..n
    BY <1>0
  <2>2. m[i + k + 1] = NumberNext(m[i + k], t[i + k + 1])
    BY <2>1 DEF NumberTrace
  <2>3. m[i + k] = m[i] /\ t[i + k + 1] \in Digits
    BY <1>2, <2>1
  <2>4. NumberNext(m[i], t[i + k + 1]) = m[i]
    BY <2>3 DEF NumberNext, NumberStep, Digits, NonZero
  <2> QED
    BY <2>1, <2>2, <2>3, <2>4
<1>3. \A k \in 0..n : k \in T
  <2> HIDE DEF T
  <2> QED
    BY <1>0, <1>1, <1>2, InductTo
<1>4. n \in T
  BY <1>0, <1>3
<1> QED
  BY <1>0, <1>4

\* What is no number does not become one.
LEMMA DeadKeeps ==
  ASSUME NEW B, NEW t \in Seq(B), NEW m, NumberTrace(m, t), NEW i \in 1..Len(t),
         m[i] = "dead"
  PROVE  m[Len(t)] = "dead"
<1> DEFINE n == Len(t) - i
           T == {k \in 0..n : m[i + k] = "dead"}
<1>0. n \in Nat /\ Len(t) \in Nat /\ i + n = Len(t)
  OBVIOUS
<1>1. 0 \in T
  BY <1>0
<1>2. ASSUME NEW k \in 0..(n - 1), k \in T PROVE k + 1 \in T
  <2>1. /\ i + k + 1 \in 2..Len(t) /\ (i + k + 1) - 1 = i + k /\ i + (k + 1) = i + k + 1
        /\ k + 1 \in 0..n
    BY <1>0
  <2>2. m[i + k + 1] = NumberNext(m[i + k], t[i + k + 1])
    BY <2>1 DEF NumberTrace
  <2> QED
    BY <1>2, <2>1, <2>2 DEF NumberNext
<1>3. \A k \in 0..n : k \in T
  <2> HIDE DEF T
  <2> QED
    BY <1>0, <1>1, <1>2, InductTo
<1>4. n \in T
  BY <1>0, <1>3
<1> QED
  BY <1>0, <1>4

\* The digits of an exponent.
LEMMA PowerJudged ==
  ASSUME NEW B, NEW t \in Seq(B), NEW m, NumberTrace(m, t), NEW d \in 2..(Len(t) + 1),
         m[d - 1] \in {"exp", "sign"},
         m[d - 1] = "exp" => ~ByteAt(t, d, {"+", "-"})
  PROVE  DigitsAt(t, d) <=> m[Len(t)] \in NumberEnds
<1>0. Len(t) \in Nat
  OBVIOUS
<1>1. CASE d = Len(t) + 1
  <2>1. d - 1 = Len(t) /\ ~(d <= Len(t))
    BY <1>0, <1>1
  <2> QED
    BY <2>1 DEF DigitsAt, ByteAt, NumberEnds
<1>2. CASE d <= Len(t) /\ t[d] \notin Digits
  <2>1. m[d] = NumberNext(m[d - 1], t[d])
    BY <1>0, <1>2 DEF NumberTrace
  <2>2. m[d] = "dead"
    BY <1>2, <2>1 DEF NumberNext, NumberStep, ByteAt
  <2>3. m[Len(t)] = "dead"
    BY <1>0, <1>2, <2>2, DeadKeeps
  <2> QED
    BY <1>2, <2>3 DEF DigitsAt, ByteAt, NumberEnds
<1>3. CASE d <= Len(t) /\ t[d] \in Digits
  <2> DEFINE a == AfterDigits(t, d)
  <2>1. /\ a \in d..(Len(t) + 1) /\ \A k \in d..(a - 1) : t[k] \in Digits
        /\ a = Len(t) + 1 \/ t[a] \notin Digits
    BY <1>0, DigitsEnd
  <2> HIDE DEF a
  <2>2. m[d] = NumberNext(m[d - 1], t[d])
    BY <1>0, <1>3 DEF NumberTrace
  <2>3. m[d] = "power"
    BY <1>3, <2>2 DEF NumberNext, NumberStep, Digits, NonZero
  <2>4. a \in (d + 1)..(Len(t) + 1)
    BY <1>0, <1>3, <2>1
  <2>5. m[a - 1] = "power"
    BY <1>0, <1>3, <2>1, <2>3, <2>4, DigitsKeep
  <2>6. CASE a = Len(t) + 1
    <3>1. a - 1 = Len(t)
      BY <1>0, <2>6
    <3> QED
      BY <1>3, <2>5, <2>6, <3>1 DEF DigitsAt, ByteAt, NumberEnds, a
  <2>7. CASE a # Len(t) + 1
    <3>1. a \in 2..Len(t) /\ t[a] \notin Digits
      BY <1>0, <2>1, <2>4, <2>7
    <3>2. m[a] = NumberNext("power", t[a])
      BY <3>1, <2>5 DEF NumberTrace
    <3>3. m[a] = "dead"
      BY <3>1, <3>2 DEF NumberNext, NumberStep
    <3>4. m[Len(t)] = "dead"
      BY <1>0, <3>1, <3>3, DeadKeeps
    <3> QED
      BY <2>7, <3>4 DEF DigitsAt, NumberEnds, a
  <2> QED
    BY <2>6, <2>7
<1> QED
  BY <1>0, <1>1, <1>2, <1>3

\* An exponent, or nothing, after the integer or the fraction.
LEMMA ExponentJudged ==
  ASSUME NEW B, NEW t \in Seq(B), NEW m, NumberTrace(m, t), NEW i \in 2..(Len(t) + 1),
         m[i - 1] \in {"zero", "int", "frac"},
         ByteAt(t, i, Digits) => m[i - 1] = "zero",
         ByteAt(t, i, {"."}) => m[i - 1] = "frac"
  PROVE  IsExponentAt(t, i) <=> m[Len(t)] \in NumberEnds
<1>0. Len(t) \in Nat
  OBVIOUS
<1>1. CASE i = Len(t) + 1
  <2>1. i - 1 = Len(t)
    BY <1>0, <1>1
  <2> QED
    BY <1>1, <2>1 DEF IsExponentAt, NumberEnds
<1>2. CASE i <= Len(t) /\ t[i] \in {"e", "E"}
  <2>1. m[i] = NumberNext(m[i - 1], t[i])
    BY <1>0, <1>2 DEF NumberTrace
  <2>2. m[i] = "exp"
    BY <1>2, <2>1 DEF NumberNext, NumberStep, Digits, NonZero
  <2>3. i # Len(t) + 1 /\ ByteAt(t, i, {"e", "E"})
    BY <1>0, <1>2 DEF ByteAt
  <2>4. CASE ByteAt(t, i + 1, {"+", "-"})
    <3>1. i + 1 \in 2..Len(t) /\ t[i + 1] \in {"+", "-"} /\ (i + 1) - 1 = i
      BY <1>0, <2>4 DEF ByteAt
    <3>2. m[i + 1] = NumberNext("exp", t[i + 1])
      BY <2>2, <3>1 DEF NumberTrace
    <3>3. m[i + 1] = "sign"
      BY <3>1, <3>2 DEF NumberNext, NumberStep, Digits, NonZero
    <3>4. i + 2 \in 2..(Len(t) + 1) /\ (i + 2) - 1 = i + 1
      BY <1>0, <3>1
    <3>5. DigitsAt(t, i + 2) <=> m[Len(t)] \in NumberEnds
      BY <3>3, <3>4, PowerJudged
    <3> QED
      BY <2>3, <2>4, <3>5 DEF IsExponentAt
  <2>5. CASE ~ByteAt(t, i + 1, {"+", "-"})
    <3>1. i + 1 \in 2..(Len(t) + 1) /\ (i + 1) - 1 = i
      BY <1>0, <1>2
    <3>2. DigitsAt(t, i + 1) <=> m[Len(t)] \in NumberEnds
      BY <2>2, <2>5, <3>1, PowerJudged
    <3> QED
      BY <2>3, <2>5, <3>2 DEF IsExponentAt
  <2> QED
    BY <2>4, <2>5
<1>3. CASE i <= Len(t) /\ t[i] \notin {"e", "E"}
  <2>1. m[i] = NumberNext(m[i - 1], t[i])
    BY <1>0, <1>3 DEF NumberTrace
  <2>2. m[i] = "dead"
    BY <1>3, <2>1 DEF NumberNext, NumberStep, Digits, NonZero, ByteAt
  <2>3. m[Len(t)] = "dead"
    BY <1>0, <1>3, <2>2, DeadKeeps
  <2>4. ~IsExponentAt(t, i)
    BY <1>0, <1>3 DEF IsExponentAt, ByteAt
  <2> QED
    BY <2>3, <2>4 DEF NumberEnds
<1> QED
  BY <1>0, <1>1, <1>2, <1>3

\* A fraction, or none, after the integer.
LEMMA FractionJudged ==
  ASSUME NEW B, NEW t \in Seq(B), NEW m, NumberTrace(m, t), NEW i \in 2..(Len(t) + 1),
         m[i - 1] \in {"zero", "int"},
         ByteAt(t, i, Digits) => m[i - 1] = "zero"
  PROVE  IsFractionAt(t, i) <=> m[Len(t)] \in NumberEnds
<1>0. Len(t) \in Nat
  OBVIOUS
<1>1. CASE ~ByteAt(t, i, {"."})
  BY <1>1, ExponentJudged DEF IsFractionAt
<1>2. CASE ByteAt(t, i, {"."})
  <2>1. i \in 2..Len(t) /\ t[i] = "."
    BY <1>0, <1>2 DEF ByteAt
  <2>2. m[i] = NumberNext(m[i - 1], t[i])
    BY <1>0, <2>1 DEF NumberTrace
  <2>3. m[i] = "dot"
    BY <2>1, <2>2 DEF NumberNext, NumberStep, Digits, NonZero
  <2>4. CASE i + 1 > Len(t)
    <3>1. i = Len(t) /\ ~ByteAt(t, i + 1, Digits)
      BY <1>0, <2>1, <2>4 DEF ByteAt
    <3> QED
      BY <1>2, <2>3, <3>1 DEF IsFractionAt, NumberEnds
  <2>5. CASE i + 1 <= Len(t) /\ t[i + 1] \notin Digits
    <3>1. i + 1 \in 2..Len(t) /\ (i + 1) - 1 = i
      BY <1>0, <2>1, <2>5
    <3>2. m[i + 1] = NumberNext("dot", t[i + 1])
      BY <2>3, <3>1 DEF NumberTrace
    <3>3. m[i + 1] = "dead"
      BY <2>5, <3>2 DEF NumberNext, NumberStep
    <3>4. m[Len(t)] = "dead"
      BY <1>0, <3>1, <3>3, DeadKeeps
    <3> QED
      BY <1>2, <2>5, <3>4 DEF IsFractionAt, ByteAt, NumberEnds
  <2>6. CASE i + 1 <= Len(t) /\ t[i + 1] \in Digits
    <3> DEFINE a == AfterDigits(t, i + 1)
    <3>0. i + 1 \in 1..(Len(t) + 1) /\ i + 1 \in 2..Len(t) /\ (i + 1) - 1 = i
      BY <1>0, <2>1, <2>6
    <3>1. /\ a \in (i + 1)..(Len(t) + 1) /\ \A k \in (i + 1)..(a - 1) : t[k] \in Digits
          /\ a = Len(t) + 1 \/ t[a] \notin Digits
      BY <1>0, <3>0, DigitsEnd
    <3> HIDE DEF a
    <3>2. m[i + 1] = NumberNext("dot", t[i + 1])
      BY <2>3, <3>0 DEF NumberTrace
    <3>3. m[i + 1] = "frac"
      BY <2>6, <3>2 DEF NumberNext, NumberStep, Digits, NonZero
    <3>4. a \in (i + 2)..(Len(t) + 1) /\ a \in 2..(Len(t) + 1)
      BY <1>0, <2>1, <2>6, <3>1
    <3>5. i + 1 \in 1..Len(t) /\ a \in ((i + 1) + 1)..(Len(t) + 1)
      BY <1>0, <3>0, <3>4
    <3>6. m[a - 1] = "frac"
      BY <3>1, <3>3, <3>5, DigitsKeep
    <3>7. ~ByteAt(t, a, Digits)
      BY <1>0, <3>1 DEF ByteAt
    <3>8. IsExponentAt(t, a) <=> m[Len(t)] \in NumberEnds
      BY <3>4, <3>6, <3>7, ExponentJudged
    <3>9. ByteAt(t, i + 1, Digits)
      BY <2>6 DEF ByteAt
    <3> QED
      BY <1>2, <3>8, <3>9 DEF IsFractionAt, a
  <2> QED
    BY <1>0, <2>1, <2>4, <2>5, <2>6
<1> QED
  BY <1>1, <1>2

\* The integer a number begins with, after its sign.
LEMMA IntegerJudged ==
  ASSUME NEW B, NEW t \in Seq(B), NEW m, NumberTrace(m, t), NEW i \in 1..Len(t),
         t[i] \in Digits, m[i] = IF t[i] = "0" THEN "zero" ELSE "int"
  PROVE  IsIntegerAt(t, i) <=> m[Len(t)] \in NumberEnds
<1>0. Len(t) \in Nat /\ ByteAt(t, i, Digits)
  BY DEF ByteAt
<1>1. CASE t[i] = "0"
  <2>1. i + 1 \in 2..(Len(t) + 1) /\ (i + 1) - 1 = i
    BY <1>0
  <2>2. IsFractionAt(t, i + 1) <=> m[Len(t)] \in NumberEnds
    BY <1>1, <2>1, FractionJudged
  <2> QED
    BY <1>0, <1>1, <2>2 DEF IsIntegerAt
<1>2. CASE t[i] # "0"
  <2> DEFINE a == AfterDigits(t, i)
  <2>1. /\ a \in i..(Len(t) + 1) /\ \A k \in i..(a - 1) : t[k] \in Digits
        /\ a = Len(t) + 1 \/ t[a] \notin Digits
    BY <1>0, DigitsEnd
  <2> HIDE DEF a
  <2>2. a \in (i + 1)..(Len(t) + 1) /\ a \in 2..(Len(t) + 1)
    BY <1>0, <2>1
  <2>3. m[a - 1] = "int"
    BY <1>2, <2>1, <2>2, DigitsKeep
  <2>4. ~ByteAt(t, a, Digits)
    BY <1>0, <2>1 DEF ByteAt
  <2>5. IsFractionAt(t, a) <=> m[Len(t)] \in NumberEnds
    BY <2>2, <2>3, <2>4, FractionJudged
  <2> QED
    BY <1>0, <1>2, <2>5 DEF IsIntegerAt, a
<1> QED
  BY <1>1, <1>2

\* is_valid_json_number and the grammar judge every token alike.
LEMMA NumberJudged ==
  ASSUME NEW B, NEW t \in Seq(B), NEW m, Numeric(t), NumberTrace(m, t)
  PROVE  IsValidJsonNumber(t) <=> m[Len(t)] \in NumberEnds
<1>0. Len(t) \in Nat /\ Len(t) >= 1
  BY DEF Numeric
<1>1. CASE t[1] # "-"
  <2>1. t[1] \in Digits /\ ~ByteAt(t, 1, {"-"}) /\ 1 \in 1..Len(t)
    BY <1>0, <1>1 DEF Numeric, ByteAt
  <2>2. m[1] = IF t[1] = "0" THEN "zero" ELSE "int"
    BY <1>1 DEF NumberTrace, NumberHead
  <2>3. IsIntegerAt(t, 1) <=> m[Len(t)] \in NumberEnds
    BY <2>1, <2>2, IntegerJudged
  <2>4. (IF ByteAt(t, 1, {"-"}) THEN 2 ELSE 1) = 1
    BY <2>1
  <2>5. IsValidJsonNumber(t) <=> IsIntegerAt(t, 1)
    BY <2>4 DEF IsValidJsonNumber
  <2> QED
    BY <2>3, <2>5
<1>2. CASE t[1] = "-"
  <2>1. ByteAt(t, 1, {"-"}) /\ m[1] = "minus"
    BY <1>0, <1>2 DEF ByteAt, NumberTrace, NumberHead
  <2>2. CASE Len(t) = 1
    <3>1. ~IsIntegerAt(t, 2)
      BY <2>2 DEF IsIntegerAt, ByteAt
    <3> QED
      BY <2>1, <2>2, <3>1 DEF IsValidJsonNumber, NumberEnds
  <2>3. CASE Len(t) # 1
    <3>1. 2 \in 2..Len(t) /\ 2 - 1 = 1 /\ 2 \in 1..Len(t)
      <4> DEFINE n == Len(t)
      <4>1. n \in Nat /\ n >= 1 /\ n # 1
        BY <1>0, <2>3
      <4> HIDE DEF n
      <4>2. 2 \in 2..n /\ 2 - 1 = 1 /\ 2 \in 1..n
        BY <4>1
      <4> QED
        BY <4>2 DEF n
    <3>2. m[2] = NumberNext(m[2 - 1], t[2])
      BY <3>1 DEF NumberTrace
    <3>3. m[2] = NumberNext("minus", t[2])
      BY <2>1, <3>1, <3>2
    <3>4. CASE t[2] \in Digits
      <4>1. m[2] = IF t[2] = "0" THEN "zero" ELSE "int"
        BY <3>3, <3>4 DEF NumberNext, NumberStep, Digits, NonZero
      <4>2. IsIntegerAt(t, 2) <=> m[Len(t)] \in NumberEnds
        BY <3>1, <3>4, <4>1, IntegerJudged
      <4> QED
        BY <2>1, <4>2 DEF IsValidJsonNumber
    <3>5. CASE t[2] \notin Digits
      <4>1. m[2] = "dead"
        BY <3>3, <3>5 DEF NumberNext, NumberStep, Digits, NonZero
      <4>2. m[Len(t)] = "dead"
        BY <3>1, <4>1, DeadKeeps
      <4>3. ~IsIntegerAt(t, 2)
        BY <3>5 DEF IsIntegerAt, ByteAt
      <4> QED
        BY <2>1, <4>2, <4>3 DEF IsValidJsonNumber, NumberEnds
    <3> QED
      BY <3>4, <3>5
  <2> QED
    BY <2>2, <2>3
<1> QED
  BY <1>1, <1>2

\* What parse_i64_token takes is a number.
LEMMA IntegerIsNumber ==
  ASSUME NEW B, NEW t \in Seq(B), NEW m, Numeric(t), NumberTrace(m, t), ParsesAsI64(t)
  PROVE  m[Len(t)] \in NumberEnds
<1> DEFINE i == IF t[1] = "-" THEN 2 ELSE 1
<1>0. /\ Len(t) \in Nat /\ i \in 1..Len(t) /\ (t[i] = "0" => i = Len(t))
      /\ \A k \in i..Len(t) : t[k] \in Digits
  BY DEF Numeric, ParsesAsI64
<1>1. t[i] \in Digits
  BY <1>0
<1>2. m[i] = IF t[i] = "0" THEN "zero" ELSE "int"
  <2>1. CASE t[1] = "-"
    <3>1. 2 \in 2..Len(t) /\ i = 2 /\ 2 - 1 = 1
      BY <1>0, <2>1
    <3>2. m[2] = NumberNext(m[2 - 1], t[2]) /\ m[1] = "minus"
      BY <2>1, <3>1 DEF NumberTrace, NumberHead
    <3>3. m[2] = NumberNext("minus", t[2]) /\ t[2] \in Digits
      BY <1>1, <3>1, <3>2
    <3> QED
      BY <3>1, <3>3 DEF NumberNext, NumberStep, Digits, NonZero
  <2>2. CASE t[1] # "-"
    BY <2>2 DEF NumberTrace, NumberHead
  <2> QED
    BY <2>1, <2>2
<1> HIDE DEF i
<1>3. CASE t[i] = "0"
  BY <1>0, <1>2, <1>3 DEF NumberEnds
<1>4. CASE t[i] # "0"
  <2>1. Len(t) + 1 \in (i + 1)..(Len(t) + 1) /\ (Len(t) + 1) - 1 = Len(t)
    BY <1>0
  <2>2. m[(Len(t) + 1) - 1] = m[i]
    <3>1. \A k \in i..((Len(t) + 1) - 1) : t[k] \in Digits
      BY <1>0, <2>1
    <3> QED
      BY <1>0, <1>2, <1>4, <2>1, <3>1, DigitsKeep
  <2> QED
    BY <1>2, <1>4, <2>1, <2>2 DEF NumberEnds
<1> QED
  BY <1>3, <1>4

\* A byte of a number, whatever containers are open.
LEMMA NumberByteFacts ==
  ASSUME NEW g \in Automaton, g.ctl \in NumberStates \cup {"dead"}, NEW c \in NumberBytes
  PROVE  LET h == GrammarStep(g, c) IN
         /\ h \in Automaton /\ h.ctl = NumberNext(g.ctl, c)
         /\ h.paired = g.paired /\ h.spell = g.spell
         /\ h.ctl # "dead" => h.stack = g.stack
         /\ g.stack # <<>> \/ g.ctl \notin NumberEnds => h.past = g.past
<1> DEFINE h == GrammarStep(g, c)
           s == NumberStep(g.ctl, c)
           e == EndValue(g)
           d == Dead(e)
<1>1. CASE g.ctl = "dead"
  BY <1>1 DEF GrammarStep, NumberNext, NumberStates
<1>2. CASE g.ctl \in NumberStates /\ s # "end"
  <2>1. h = [g EXCEPT !.ctl = s]
    BY <1>2 DEF GrammarStep, NumberStates
  <2>2. s \in Ctls /\ NumberNext(g.ctl, c) = s
    BY <1>2 DEF NumberStep, NumberNext, Ctls, NumberStates
  <2> HIDE DEF s
  <2> QED
    BY <2>1, <2>2, CtlFacts DEF Within
<1>3. CASE g.ctl \in NumberStates /\ s = "end" /\ g.ctl \notin NumberEnds
  <2>1. h = Dead(g) /\ NumberNext(g.ctl, c) = "dead"
    BY <1>3 DEF GrammarStep, NumberStates, NumberNext
  <2> QED
    BY <2>1, DeadFacts
<1>4. CASE g.ctl \in NumberEnds /\ s = "end"
  <2>1. h = BetweenStep(e, c) /\ NumberNext(g.ctl, c) = "dead"
    BY <1>4 DEF GrammarStep, NumberStates, NumberEnds, NumberNext
  <2>2. /\ e \in Automaton /\ e.ctl = After(g.stack) /\ e.paired = g.paired
        /\ e.spell = g.spell /\ e.past = g.past /\ e.stack = g.stack
    BY EndFacts DEF Within
  <2> HIDE DEF e
  <2>3. /\ d \in Automaton /\ d.ctl = "dead" /\ d.paired = g.paired
        /\ d.spell = g.spell /\ d.past = g.past
    BY <2>2, DeadFacts
  <2> HIDE DEF d
  <2>4. c \notin Spaces /\ c \notin {",", "}", "]"}
    BY DEF NumberBytes, Digits, NonZero, Spaces
  <2>5. CASE g.stack = <<>>
    <3>1. h = [d EXCEPT !.past = TRUE]
      BY <2>1, <2>2, <2>4, <2>5 DEF BetweenStep, After, d
    <3> QED
      BY <1>4, <2>1, <2>3, <2>5, <3>1 DEF Automaton
  <2>6. CASE g.stack # <<>>
    <3>1. h = ContainerStep(e, c)
      BY <2>1, <2>2, <2>4, <2>6 DEF BetweenStep, After
    <3>2. ContainerStep(e, c) = d
      BY <2>2, <2>4, <2>6 DEF ContainerStep, After, d
    <3> QED
      BY <2>1, <2>3, <3>1, <3>2
  <2> QED
    BY <2>5, <2>6
<1> QED
  BY <1>1, <1>2, <1>3, <1>4 DEF NumberStates, NumberEnds

\* The words begin with different letters.
LEMMA LiteralHeads ==
  /\ \A c : LiteralOf(c) # {} <=> c \in {"t", "f", "n"}
  /\ LiteralOf("t") = {"true"} /\ LiteralOf("f") = {"false"} /\ LiteralOf("n") = {"null"}
<1>1. DOMAIN Literals = {"true", "false", "null"}
  BY DEF Literals
<1>2. Head(Literals["true"]) = "t" /\ Head(Literals["false"]) = "f" /\ Head(Literals["null"]) = "n"
  BY DEF Literals
<1> QED
  BY <1>1, <1>2 DEF LiteralOf

\* The first byte of a number.
LEMMA NumberStartFacts ==
  ASSUME NEW g \in Automaton, NEW c \in Digits \cup {"-"}
  PROVE  LET h == StartValue(g, c) IN
         /\ Within(g, h) /\ h.ctl = NumberHead(c) /\ h.paired = g.paired
<1>1. <<>> \in Seq(Symbols)
  OBVIOUS
<1> DEFINE t == [g EXCEPT !.text = <<>>]
<1>2. t \in Automaton /\ Within(g, t) /\ t.paired = g.paired
  BY <1>1 DEF Automaton, Within
<1>3. StartValue(g, c) = [t EXCEPT !.ctl = NumberHead(c)]
  BY LiteralHeads DEF StartValue, NumberHead, Digits, NonZero, Quote
<1>4. NumberHead(c) \in Ctls
  BY DEF NumberHead, Ctls, NumberStates
<1> HIDE DEF t
<1> QED
  BY <1>2, <1>3, <1>4, CtlFacts DEF Within

\* The automaton's run over a numeric token.
LEMMA NumericRun ==
  ASSUME NEW B, NEW t \in Seq(B), Numeric(t)
  PROVE  /\ GrammarRun(GrammarStart(FALSE), t) \in Automaton
         /\ GrammarRun(GrammarStart(FALSE), t).ctl \in NumberStates \cup {"dead"}
         /\ \E m : NumberTrace(m, t) /\ GrammarRun(GrammarStart(FALSE), t).ctl = m[Len(t)]
<1> DEFINE n == Len(t)
<1>0. n \in Nat /\ n >= 1
  BY DEF Numeric
<1>1. PICK f : Trace(f, GrammarStart(FALSE), t) /\ GrammarRun(GrammarStart(FALSE), t) = f[n]
  BY RunTrace
<1> DEFINE m == [k \in 0..n |-> f[k].ctl]
           T == {k \in 0..(n - 1) : /\ f[k + 1] \in Automaton
                                    /\ f[k + 1].ctl \in NumberStates \cup {"dead"}}
<1>2. f[1] \in Automaton /\ f[1].ctl = NumberHead(t[1])
  <2>1. f[0] = GrammarStart(FALSE) /\ f[1] = GrammarStep(f[1 - 1], t[1])
    BY <1>0, <1>1 DEF Trace
  <2>2. f[0] \in Automaton /\ f[0].ctl = "root"
    BY <2>1, StartFacts
  <2>3. t[1] \in Digits \cup {"-"} /\ t[1] \notin Spaces
    BY DEF Numeric, Digits, NonZero, Spaces
  <2>4. f[1] = StartValue(f[0], t[1])
    <3>1. f[1] = GrammarStep(f[0], t[1])
      <4>1. 1 - 1 = 0
        OBVIOUS
      <4> QED
        BY <2>1, <4>1, Zenon
    <3>2. GrammarStep(f[0], t[1]) = BetweenStep(f[0], t[1])
      BY <2>2 DEF GrammarStep, NumberStates
    <3> QED
      BY <2>2, <2>3, <3>1, <3>2 DEF BetweenStep
  <2> QED
    BY <2>2, <2>3, <2>4, NumberStartFacts DEF Within
<1>3. ASSUME NEW k \in 1..(n - 1), f[k] \in Automaton, f[k].ctl \in NumberStates \cup {"dead"}
      PROVE  /\ f[k + 1] \in Automaton /\ f[k + 1].ctl = NumberNext(f[k].ctl, t[k + 1])
             /\ f[k + 1].ctl \in NumberStates \cup {"dead"}
  <2>1. k + 1 \in 1..n /\ (k + 1) - 1 = k
    BY <1>0
  <2>2. f[k + 1] = GrammarStep(f[k], t[k + 1]) /\ t[k + 1] \in NumberBytes
    BY <1>1, <2>1 DEF Trace, Numeric
  <2>3. f[k + 1] \in Automaton /\ f[k + 1].ctl = NumberNext(f[k].ctl, t[k + 1])
    BY <1>3, <2>2, NumberByteFacts
  <2> QED
    BY <1>3, <2>3, NumberNextType
<1>4. \A k \in 0..(n - 1) : k \in T
  <2>1. 0 \in T
    <3>1. NumberHead(t[1]) \in NumberStates
      BY DEF NumberHead, NumberStates
    <3> QED
      BY <1>0, <1>2, <3>1
  <2>2. ASSUME NEW k \in 0..((n - 1) - 1), k \in T PROVE k + 1 \in T
    <3>1. k + 1 \in 1..(n - 1) /\ k + 1 \in 0..(n - 1)
      BY <1>0
    <3> QED
      BY <1>3, <2>2, <3>1
  <2>3. n - 1 \in Nat
    BY <1>0
  <2> HIDE DEF T
  <2> QED
    BY <2>1, <2>2, <2>3, InductTo
<1>5. \A k \in 1..n : f[k] \in Automaton /\ f[k].ctl \in NumberStates \cup {"dead"}
  <2> TAKE k \in 1..n
  <2>1. k - 1 \in 0..(n - 1) /\ (k - 1) + 1 = k
    BY <1>0
  <2>2. k - 1 \in T
    BY <1>4, <2>1
  <2> QED
    BY <2>1, <2>2
<1>6. NumberTrace(m, t)
  <2>1. m[1] = NumberHead(t[1])
    BY <1>0, <1>2
  <2>2. ASSUME NEW k \in 2..n PROVE m[k] = NumberNext(m[k - 1], t[k])
    <3>1. k - 1 \in 1..(n - 1) /\ (k - 1) + 1 = k /\ k \in 0..n /\ k - 1 \in 0..n /\ k - 1 \in 1..n
      BY <1>0
    <3>2. f[k].ctl = NumberNext(f[k - 1].ctl, t[k])
      BY <1>3, <1>5, <3>1
    <3> QED
      BY <3>1, <3>2
  <2> HIDE DEF m
  <2> QED
    BY <2>1, <2>2 DEF NumberTrace
<1>7. m[n] = f[n].ctl
  BY <1>0
<1> HIDE DEF m
<1>8. \E a : NumberTrace(a, t) /\ f[n].ctl = a[n]
  BY <1>6, <1>7
<1>9. f[n] \in Automaton /\ f[n].ctl \in NumberStates \cup {"dead"}
  BY <1>0, <1>5
<1> QED
  BY <1>1, <1>8, <1>9

\* is_valid_json_number accepts exactly the numbers of the grammar, and
\* parse_i64_token numbers only.
LEMMA NumberAccepted ==
  ASSUME NEW B, NEW t \in Seq(B), Numeric(t)
  PROVE  LET ctl == GrammarRun(GrammarStart(FALSE), t).ctl IN
         /\ IsValidJsonNumber(t) <=> ctl \in NumberEnds
         /\ ParsesAsI64(t) => ctl \in NumberEnds
<1>1. PICK m : NumberTrace(m, t) /\ GrammarRun(GrammarStart(FALSE), t).ctl = m[Len(t)]
  BY NumericRun
<1>2. IsValidJsonNumber(t) <=> m[Len(t)] \in NumberEnds
  BY <1>1, NumberJudged
<1>3. ParsesAsI64(t) => m[Len(t)] \in NumberEnds
  BY <1>1, IntegerIsNumber
<1> QED
  BY <1>1, <1>2, <1>3

-----------------------------------------------------------------------------
(***************************************************************************)
(* Strings and words.                                                      *)
(***************************************************************************)

Special == Controls \cup {Quote, Backslash}

\* The spelling that grows by a symbol, if it is kept.
Spelled(g, sym) == IF g.key /\ g.spell THEN Append(g.text, sym) ELSE g.text

\* h: what a byte or an escape that stands for sym makes of g.
Took(g, h, sym) ==
  /\ Within(g, h) /\ h.ctl = "string" /\ ~h.high
  /\ h.paired <=> g.paired /\ ~g.high
  /\ h.paired => h.text = Spelled(g, sym)

\* h: what the closing quote makes of g.
Quoted(g, h) ==
  /\ Within(g, h) /\ h.ctl = (IF g.key THEN "colon" ELSE After(g.stack))
  /\ h.paired <=> g.paired /\ ~g.high
  /\ h.paired => h.text = g.text

\* h: g, dead.
Died(g, h) == /\ h \in Automaton /\ h.ctl = "dead" /\ h.spell = g.spell
              /\ h.past = g.past /\ h.paired = g.paired

\* h: g at another control.
Moved(g, h, ctl) == /\ Within(g, h) /\ h.ctl = ctl /\ h.high = g.high
                    /\ h.paired = g.paired /\ h.text = g.text

LEMMA SymbolTaken ==
  ASSUME NEW g \in Automaton, NEW sym \in Symbols, g.ctl = "string"
  PROVE  Took(g, Spell(BreakPair(g), sym), sym)
<1> DEFINE b == BreakPair(g)
<1>1. /\ Within(g, b) /\ b.ctl = g.ctl /\ ~b.high /\ (b.paired <=> g.paired /\ ~g.high)
      /\ b.paired => b.text = g.text
  BY BreakFacts
<1>2. b \in Automaton
  BY <1>1 DEF Within
<1> HIDE DEF b
<1> DEFINE h == Spell(b, sym)
<1>3. /\ Within(b, h) /\ h.ctl = b.ctl /\ h.high = b.high /\ h.paired = b.paired
      /\ h.text = Spelled(b, sym)
  BY <1>2, SpellFacts DEF Spelled
<1>4. b.key = g.key /\ b.spell = g.spell
  BY <1>1 DEF Within
<1> HIDE DEF h
<1>5. Within(g, h) /\ h.ctl = "string" /\ ~h.high /\ (h.paired <=> g.paired /\ ~g.high)
  BY <1>1, <1>3 DEF Within
<1>6. h.paired => h.text = Spelled(g, sym)
  BY <1>1, <1>3, <1>4 DEF Spelled
<1> QED
  BY <1>5, <1>6 DEF Took, h, b

LEMMA StringByteFacts ==
  ASSUME NEW g \in Automaton, g.ctl = "string", NEW c \in Marks
  PROVE  LET h == GrammarStep(g, c) IN
         /\ c \notin Special => Took(g, h, c)
         /\ c = Quote => Quoted(g, h)
         /\ c = Backslash => Moved(g, h, "escape")
         /\ c \in Controls => Died(g, h)
<1>0. c \in Symbols
  BY MarksAreSymbols
<1>1. GrammarStep(g, c) = StringStep(g, c)
  BY DEF GrammarStep, NumberStates
<1>2. CASE c \notin Special
  <2>1. StringStep(g, c) = Spell(BreakPair(g), c)
    BY <1>2 DEF StringStep, Special
  <2> QED
    BY <1>0, <1>1, <1>2, <2>1, SymbolTaken DEF Special
<1>3. CASE c = Quote
  <2> DEFINE b == BreakPair(g)
  <2>1. /\ Within(g, b) /\ b.ctl = g.ctl /\ ~b.high /\ (b.paired <=> g.paired /\ ~g.high)
        /\ b.paired => b.text = g.text
    BY BreakFacts
  <2>2. b \in Automaton /\ b.stack = g.stack
    BY <2>1 DEF Within
  <2>3. GrammarStep(g, c) = IF g.key THEN [b EXCEPT !.ctl = "colon"] ELSE EndValue(b)
    BY <1>1, <1>3 DEF StringStep, Quote, Backslash, Controls
  <2> HIDE DEF b
  <2>4. "colon" \in Ctls /\ c \in Special /\ c # Backslash /\ c \notin Controls
    BY <1>3 DEF Ctls, Places, Special, Quote, Backslash, Controls
  <2>5. CASE g.key
    <3> DEFINE h == [b EXCEPT !.ctl = "colon"]
    <3>1. /\ Within(b, h) /\ h.ctl = "colon" /\ h.paired = b.paired /\ h.text = b.text
      BY <2>2, <2>4, CtlFacts
    <3>2. GrammarStep(g, c) = h
      BY <2>3, <2>5
    <3> HIDE DEF h
    <3>3. Quoted(g, h)
      BY <2>1, <2>5, <3>1 DEF Quoted, Within
    <3> QED
      BY <1>3, <2>4, <3>2, <3>3
  <2>6. CASE ~g.key
    BY <1>3, <2>1, <2>2, <2>3, <2>4, <2>6, EndFacts DEF Quoted, Within
  <2> QED
    BY <2>5, <2>6
<1>4. CASE c = Backslash
  <2>1. StringStep(g, c) = [g EXCEPT !.ctl = "escape"]
    BY <1>4 DEF StringStep, Quote, Backslash, Controls
  <2>2. "escape" \in Ctls /\ c \in Special /\ c # Quote /\ c \notin Controls
    BY <1>4 DEF Ctls, Special, Quote, Backslash, Controls
  <2> QED
    BY <1>1, <1>4, <2>1, <2>2, CtlFacts DEF Moved
<1>5. CASE c \in Controls
  <2>1. StringStep(g, c) = Dead(g)
    BY <1>5 DEF StringStep, Quote, Backslash, Controls
  <2>2. c \in Special /\ c # Quote /\ c # Backslash
    BY <1>5 DEF Special, Quote, Backslash, Controls
  <2> QED
    BY <1>1, <1>5, <2>1, <2>2, DeadFacts DEF Died
<1> QED
  BY <1>2, <1>3, <1>4, <1>5 DEF Special

LEMMA EscapeByteFacts ==
  ASSUME NEW g \in Automaton, g.ctl = "escape", NEW c \in Marks
  PROVE  LET h == GrammarStep(g, c) IN
         /\ c = "u" => Moved(g, h, "hex") /\ h.left = 4 /\ h.cp = 0
         /\ c \in SimpleEscapes => Took(g, h, Unescape(c))
         /\ c # "u" /\ c \notin SimpleEscapes => Died(g, h)
<1>1. GrammarStep(g, c) = StringStep(g, c)
  BY DEF GrammarStep, NumberStates
<1>2. CASE c = "u"
  <2>2. c \notin SimpleEscapes
    BY <1>2 DEF SimpleEscapes, Quote, Backslash
  <2>1. StringStep(g, c) = [g EXCEPT !.ctl = "hex", !.left = 4, !.cp = 0]
    BY <1>2, <2>2 DEF StringStep
  <2>3. "hex" \in Ctls /\ 4 \in Int /\ 0 \in Int
    BY DEF Ctls
  <2> DEFINE h == [g EXCEPT !.ctl = "hex", !.left = 4, !.cp = 0]
  <2>4. h \in Automaton
    BY <2>3 DEF Automaton
  <2>5. /\ h.ctl = "hex" /\ h.left = 4 /\ h.cp = 0 /\ h.stack = g.stack /\ h.key = g.key
        /\ h.spell = g.spell /\ h.past = g.past /\ h.high = g.high /\ h.paired = g.paired
        /\ h.text = g.text
    BY DEF Automaton
  <2> HIDE DEF h
  <2>6. Moved(g, h, "hex")
    BY <2>4, <2>5 DEF Moved, Within
  <2> QED
    BY <1>1, <1>2, <2>1, <2>2, <2>5, <2>6 DEF h
<1>3. CASE c \in SimpleEscapes
  <2> DEFINE b == BreakPair(g)
             e == [g EXCEPT !.ctl = "string"]
  <2>0. c # "u" /\ Unescape(c) \in Symbols
    BY <1>3 DEF SimpleEscapes, Unescape, Symbols, Marks, Quote, Backslash
  <2>1. StringStep(g, c) = Spell([b EXCEPT !.ctl = "string"], Unescape(c))
    BY <1>3, <2>0 DEF StringStep
  <2>2. "string" \in Ctls
    BY DEF Ctls
  <2>3. e \in Automaton /\ e.ctl = "string" /\ e.stack = g.stack /\ e.key = g.key /\ e.spell = g.spell
        /\ e.past = g.past /\ e.high = g.high /\ e.paired = g.paired /\ e.text = g.text
    BY <2>2, CtlFacts DEF Within
  <2>4. [b EXCEPT !.ctl = "string"] = BreakPair(e)
    <3>1. CASE g.high
      <4> DEFINE x == [g EXCEPT !.high = FALSE, !.paired = FALSE]
                 y == [e EXCEPT !.high = FALSE, !.paired = FALSE]
      <4>1. b = Spell(x, Unpaired) /\ BreakPair(e) = Spell(y, Unpaired)
        BY <3>1, <2>3 DEF BreakPair
      <4>2. y = [x EXCEPT !.ctl = "string"] /\ y.key = x.key /\ y.spell = x.spell
            /\ y.text = x.text
        BY DEF Automaton
      <4>3. x \in Automaton
        BY DEF Automaton
      <4> HIDE DEF x, y, e, b
      <4> QED
        BY <4>1, <4>2, <4>3 DEF Spell, Automaton
    <3>2. CASE ~g.high
      BY <3>2, <2>3 DEF BreakPair
    <3> QED
      BY <3>1, <3>2
  <2> HIDE DEF e
  <2>5. Took(e, Spell(BreakPair(e), Unescape(c)), Unescape(c))
    BY <2>0, <2>3, SymbolTaken
  <2>6. Took(g, Spell(BreakPair(e), Unescape(c)), Unescape(c))
    BY <2>3, <2>5 DEF Took, Within, Spelled
  <2> QED
    BY <1>1, <1>3, <2>0, <2>1, <2>4, <2>6
<1>4. CASE c # "u" /\ c \notin SimpleEscapes
  <2>1. StringStep(g, c) = Dead(g)
    BY <1>4 DEF StringStep
  <2> QED
    BY <1>1, <1>4, <2>1, DeadFacts DEF Died
<1> QED
  BY <1>2, <1>3, <1>4

\* h: what the last digit of an escape for code point cp makes of g.
Pointed(g, h, cp) ==
  /\ Within(g, h) /\ h.ctl = "string"
  /\ h.high <=> IsHigh(cp)
  /\ IsLow(cp) => (h.paired <=> g.paired /\ g.high)
  /\ ~IsLow(cp) => (h.paired <=> g.paired /\ ~g.high)
  /\ h.paired /\ IsHigh(cp) => h.text = g.text
  /\ h.paired /\ IsLow(cp) => h.text = Spelled(g, CodePoint)
  /\ h.paired /\ ~IsHigh(cp) /\ ~IsLow(cp) => h.text = Spelled(g, DecodedPoint(cp))

\* No code point is a high and a low surrogate.
LEMMA HighOrLow ==
  ASSUME NEW cp \in Int
  PROVE  ~(IsHigh(cp) /\ IsLow(cp))
  BY DEF IsHigh, IsLow

LEMMA HexPointType ==
  ASSUME NEW g \in Automaton, NEW c \in HexDigits
  PROVE  g.cp * 16 + HexValue(c) \in Int
<1>1. g.cp \in Int
  BY DEF Automaton
<1>2. HexValue(c) \in Int
  BY HexValueType
<1> QED
  BY <1>1, <1>2

LEMMA HexByteFacts ==
  ASSUME NEW g \in Automaton, g.ctl = "hex", g.left \in 1..4, NEW c \in Marks
  PROVE  LET h == GrammarStep(g, c)
             cp == g.cp * 16 + HexValue(c) IN
         /\ c \notin HexDigits => Died(g, h)
         /\ c \in HexDigits /\ g.left > 1 =>
              Moved(g, h, "hex") /\ h.left = g.left - 1 /\ h.cp = cp
         /\ c \in HexDigits /\ g.left = 1 => Pointed(g, h, cp)
<1>1. GrammarStep(g, c) = StringStep(g, c)
  BY DEF GrammarStep, NumberStates
<1>2. CASE c \notin HexDigits
  <2>1. StringStep(g, c) = Dead(g)
    BY <1>2 DEF StringStep
  <2> QED
    BY <1>1, <1>2, <2>1, DeadFacts DEF Died
<1>3. CASE c \in HexDigits /\ g.left > 1
  <2> DEFINE cp == g.cp * 16 + HexValue(c)
  <2>1. cp \in Int
    BY <1>3, HexPointType
  <2>0. StringStep(g, c) =
          LET h == [g EXCEPT !.cp = IF g.left = 1 THEN 0 ELSE cp, !.left = @ - 1,
                             !.ctl = IF g.left = 1 THEN "string" ELSE "hex"] IN
         CASE g.left > 1 -> h
           [] g.left = 1 /\ IsHigh(cp) -> [BreakPair(h) EXCEPT !.high = TRUE]
           [] g.left = 1 /\ IsLow(cp) /\ g.high ->
                Spell([h EXCEPT !.high = FALSE], CodePoint)
           [] g.left = 1 /\ IsLow(cp) /\ ~g.high ->
                Spell([h EXCEPT !.paired = FALSE], Unpaired)
           [] OTHER -> Spell(BreakPair(h), DecodedPoint(cp))
    BY <1>3 DEF StringStep
  <2> HIDE DEF cp
  <2>9. g.left # 1
    BY <1>3
  <2>2. StringStep(g, c) = [g EXCEPT !.cp = cp, !.left = g.left - 1, !.ctl = "hex"]
    BY <1>3, <2>0, <2>9
  <2>3. "hex" \in Ctls /\ g.left - 1 \in Int
    BY DEF Ctls
  <2>4. LET h == [g EXCEPT !.cp = cp, !.left = g.left - 1, !.ctl = "hex"] IN
        Moved(g, h, "hex") /\ h.left = g.left - 1 /\ h.cp = cp
    BY <2>1, <2>3 DEF Moved, Within, Automaton
  <2> QED
    BY <1>1, <1>3, <2>2, <2>4 DEF cp
<1>4. CASE c \in HexDigits /\ g.left = 1
  <2> DEFINE cp == g.cp * 16 + HexValue(c)
             e == [g EXCEPT !.cp = 0, !.left = 0, !.ctl = "string"]
             h == StringStep(g, c)
  <2>1. "string" \in Ctls /\ 0 \in Int /\ CodePoint \in Symbols /\ Unpaired \in Symbols
        /\ DecodedPoint(cp) \in Symbols
    BY DEF Ctls, Symbols, CodePoint, Marks, DecodedPoint
  <2>2. /\ e \in Automaton /\ Within(g, e) /\ e.ctl = "string" /\ e.high = g.high
        /\ e.paired = g.paired /\ e.text = g.text
    <3>1. e \in Automaton
      BY <2>1 DEF Automaton
    <3>2. /\ e.ctl = "string" /\ e.high = g.high /\ e.paired = g.paired /\ e.text = g.text
          /\ e.stack = g.stack /\ e.key = g.key /\ e.spell = g.spell /\ e.past = g.past
      BY DEF Automaton
    <3> HIDE DEF e
    <3> QED
      BY <3>1, <3>2 DEF Within
  <2>3. ~(IsHigh(cp) /\ IsLow(cp))
    BY <1>4, HexPointType, HighOrLow
  <2>4. h = CASE IsHigh(cp) -> [BreakPair(e) EXCEPT !.high = TRUE]
              [] IsLow(cp) /\ g.high -> Spell([e EXCEPT !.high = FALSE], CodePoint)
              [] IsLow(cp) /\ ~g.high -> Spell([e EXCEPT !.paired = FALSE], Unpaired)
              [] OTHER -> Spell(BreakPair(e), DecodedPoint(cp))
    <3>1. g.left - 1 = 0 /\ ~(g.left > 1)
      BY <1>4
    <3>2. [g EXCEPT !.cp = IF g.left = 1 THEN 0 ELSE cp, !.left = @ - 1,
                    !.ctl = IF g.left = 1 THEN "string" ELSE "hex"] = e
      BY <1>4, <3>1
    <3>3. h = LET x == [g EXCEPT !.cp = IF g.left = 1 THEN 0 ELSE cp, !.left = @ - 1,
                                 !.ctl = IF g.left = 1 THEN "string" ELSE "hex"] IN
              CASE g.left > 1 -> x
                [] g.left = 1 /\ IsHigh(cp) -> [BreakPair(x) EXCEPT !.high = TRUE]
                [] g.left = 1 /\ IsLow(cp) /\ g.high -> Spell([x EXCEPT !.high = FALSE], CodePoint)
                [] g.left = 1 /\ IsLow(cp) /\ ~g.high ->
                     Spell([x EXCEPT !.paired = FALSE], Unpaired)
                [] OTHER -> Spell(BreakPair(x), DecodedPoint(cp))
      BY <1>4 DEF StringStep
    <3> HIDE DEF cp, e, h
    <3>4. h = CASE g.left > 1 -> e
                [] g.left = 1 /\ IsHigh(cp) -> [BreakPair(e) EXCEPT !.high = TRUE]
                [] g.left = 1 /\ IsLow(cp) /\ g.high -> Spell([e EXCEPT !.high = FALSE], CodePoint)
                [] g.left = 1 /\ IsLow(cp) /\ ~g.high ->
                     Spell([e EXCEPT !.paired = FALSE], Unpaired)
                [] OTHER -> Spell(BreakPair(e), DecodedPoint(cp))
      BY <3>2, <3>3, Zenon
    <3> QED
      BY <1>4, <3>1, <3>4
  <2> HIDE DEF e, h, cp
  <2>5. ASSUME IsHigh(cp) PROVE Pointed(g, h, cp)
    <3> DEFINE b == BreakPair(e)
    <3>1. /\ Within(e, b) /\ b.ctl = e.ctl /\ ~b.high /\ (b.paired <=> e.paired /\ ~e.high)
          /\ b.paired => b.text = e.text
      BY <2>2, BreakFacts
    <3>2. h = [b EXCEPT !.high = TRUE]
      BY <2>3, <2>4, <2>5
    <3> HIDE DEF b
    <3>3. Within(e, h) /\ h.ctl = "string" /\ h.high = TRUE /\ h.paired = b.paired /\ h.text = b.text
      BY <2>2, <3>1, <3>2 DEF Within, Automaton
    <3> QED
      BY <2>2, <2>3, <2>5, <3>1, <3>3, Zenon DEF Pointed, Within
  <2>6. ASSUME IsLow(cp) /\ g.high PROVE Pointed(g, h, cp)
    <3> DEFINE x == [e EXCEPT !.high = FALSE]
    <3>1. /\ x \in Automaton /\ Within(g, x) /\ x.ctl = "string" /\ ~x.high
          /\ x.paired = g.paired /\ x.text = g.text
      BY <2>2 DEF Within, Automaton
    <3>2. h = Spell(x, CodePoint)
      BY <2>3, <2>4, <2>6
    <3> HIDE DEF x
    <3>3. /\ Within(x, h) /\ h.ctl = "string" /\ ~h.high /\ h.paired = x.paired
          /\ h.text = Spelled(x, CodePoint)
      BY <2>1, <3>1, <3>2, SpellFacts DEF Spelled
    <3>4. Spelled(x, CodePoint) = Spelled(g, CodePoint) /\ Within(g, h)
      BY <3>1, <3>3 DEF Spelled, Within
    <3> QED
      BY <2>3, <2>6, <3>1, <3>3, <3>4, Zenon DEF Pointed
  <2>7. ASSUME IsLow(cp) /\ ~g.high PROVE Pointed(g, h, cp)
    <3> DEFINE x == [e EXCEPT !.paired = FALSE]
    <3>1. /\ x \in Automaton /\ Within(g, x) /\ x.ctl = "string" /\ ~x.high /\ ~x.paired
      BY <2>2, <2>7 DEF Within, Automaton
    <3>2. h = Spell(x, Unpaired)
      BY <2>3, <2>4, <2>7
    <3> HIDE DEF x
    <3>3. Within(x, h) /\ h.ctl = "string" /\ ~h.high /\ ~h.paired
      BY <2>1, <3>1, <3>2, SpellFacts
    <3>4. Within(g, h)
      BY <3>1, <3>3 DEF Within
    <3> QED
      BY <2>3, <2>7, <3>3, <3>4, Zenon DEF Pointed
  <2>8. ASSUME ~IsHigh(cp) /\ ~IsLow(cp) PROVE Pointed(g, h, cp)
    <3>1. h = Spell(BreakPair(e), DecodedPoint(cp))
      BY <2>4, <2>8
    <3>2. Took(e, h, DecodedPoint(cp))
      BY <2>1, <2>2, <3>1, SymbolTaken
    <3>3. Took(g, h, DecodedPoint(cp))
      BY <2>2, <3>2 DEF Took, Within, Spelled
    <3> QED
      BY <2>8, <3>3, Zenon DEF Pointed, Took
  <2> QED
    BY <1>1, <1>4, <2>5, <2>6, <2>7, <2>8 DEF cp, h
<1> QED
  BY <1>2, <1>3, <1>4

LEMMA LiteralByteFacts ==
  ASSUME NEW g \in Automaton, g.ctl = "literal", g.want # <<>>, NEW c
  PROVE  LET h == GrammarStep(g, c) IN
         /\ c # Head(g.want) => Died(g, h)
         /\ c = Head(g.want) /\ Len(g.want) = 1 =>
              /\ Within(g, h) /\ h.ctl = After(g.stack) /\ h.paired = g.paired
         /\ c = Head(g.want) /\ Len(g.want) # 1 =>
              /\ Within(g, h) /\ h.ctl = "literal" /\ h.paired = g.paired
              /\ h.want = Tail(g.want)
<1>1. GrammarStep(g, c) = IF c # Head(g.want) THEN Dead(g)
                          ELSE IF Len(g.want) = 1 THEN EndValue([g EXCEPT !.want = <<>>])
                          ELSE [g EXCEPT !.want = Tail(@)]
  BY DEF GrammarStep, NumberStates
<1>2. CASE c # Head(g.want)
  BY <1>1, <1>2, DeadFacts DEF Died
<1>3. CASE c = Head(g.want) /\ Len(g.want) = 1
  <2> DEFINE e == [g EXCEPT !.want = <<>>]
  <2>1. <<>> \in Seq(Letters)
    OBVIOUS
  <2>2. e \in Automaton /\ Within(g, e) /\ e.paired = g.paired
    BY <2>1 DEF Within, Automaton
  <2>3. GrammarStep(g, c) = EndValue(e)
    BY <1>1, <1>3
  <2> HIDE DEF e
  <2> QED
    BY <1>3, <2>2, <2>3, EndFacts DEF Within
<1>4. CASE c = Head(g.want) /\ Len(g.want) # 1
  <2> DEFINE t == Tail(g.want)
  <2>1. t \in Seq(Letters)
    BY DEF Automaton
  <2>2. GrammarStep(g, c) = [g EXCEPT !.want = t]
    BY <1>1, <1>4
  <2> HIDE DEF t
  <2>3. LET h == [g EXCEPT !.want = t] IN
        Within(g, h) /\ h.ctl = "literal" /\ h.paired = g.paired /\ h.want = t
    BY <2>1 DEF Within, Automaton
  <2> QED
    BY <1>4, <2>2, <2>3 DEF t
<1> QED
  BY <1>2, <1>3, <1>4

-----------------------------------------------------------------------------
(***************************************************************************)
(* Runs of bytes inside a token.                                           *)
(***************************************************************************)

\* What PlainLength and RunLength find.
LEMMA PlainLengthFacts ==
  ASSUME NEW s \in Seq(Marks)
  PROVE  /\ PlainLength(s) \in 0..Len(s)
         /\ \A i \in 1..PlainLength(s) : s[i] \notin Special
         /\ PlainLength(s) = Len(s) \/ s[PlainLength(s) + 1] \in Special
<1> DEFINE Stops == {i \in 1..Len(s) : s[i] \in Special}
<1>1. \E n \in 0..Len(s) : /\ \A i \in 1..n : s[i] \notin Special
                           /\ n = Len(s) \/ s[n + 1] \in Special
  <2>1. CASE Stops = {}
    BY <2>1
  <2>2. CASE Stops # {}
    <3>1. PICK x \in Stops : \A y \in Stops : x <= y
      <4>1. Stops \subseteq Nat
        OBVIOUS
      <4> HIDE DEF Stops
      <4> QED
        BY <2>2, <4>1, LeastIndex
    <3>2. /\ x \in 1..Len(s) /\ s[x] \in Special
          /\ \A i \in 1..(x - 1) : s[i] \notin Special
      BY <3>1
    <3>3. x - 1 \in 0..Len(s) /\ (x - 1) + 1 = x
      BY <3>2
    <3> QED
      BY <3>2, <3>3
  <2> QED
    BY <2>1, <2>2
<1>2. PlainLength(s) = CHOOSE n \in 0..Len(s) :
                         /\ \A i \in 1..n : s[i] \notin Special
                         /\ n = Len(s) \/ s[n + 1] \in Special
  BY DEF PlainLength, Special
<1> QED
  BY <1>1, <1>2

LEMMA RunLengthFacts ==
  ASSUME NEW s \in Seq(Marks), NEW set
  PROVE  /\ RunLength(s, set) \in 0..Len(s)
         /\ \A i \in 1..RunLength(s, set) : s[i] \in set
         /\ RunLength(s, set) = Len(s) \/ s[RunLength(s, set) + 1] \notin set
<1> DEFINE Stops == {i \in 1..Len(s) : s[i] \notin set}
<1>1. \E n \in 0..Len(s) : /\ \A i \in 1..n : s[i] \in set
                           /\ n = Len(s) \/ s[n + 1] \notin set
  <2>1. CASE Stops = {}
    BY <2>1
  <2>2. CASE Stops # {}
    <3>1. PICK x \in Stops : \A y \in Stops : x <= y
      <4>1. Stops \subseteq Nat
        OBVIOUS
      <4> HIDE DEF Stops
      <4> QED
        BY <2>2, <4>1, LeastIndex
    <3>2. /\ x \in 1..Len(s) /\ s[x] \notin set
          /\ \A i \in 1..(x - 1) : s[i] \in set
      BY <3>1
    <3>3. x - 1 \in 0..Len(s) /\ (x - 1) + 1 = x
      BY <3>2
    <3> QED
      BY <3>2, <3>3
  <2> QED
    BY <2>1, <2>2
<1> QED
  BY <1>1 DEF RunLength

LEMMA ConcatAppend ==
  ASSUME NEW B, NEW s \in Seq(B), NEW t \in Seq(B), NEW c \in B
  PROVE  s \o Append(t, c) = Append(s \o t, c)
  OBVIOUS

\* h: what bytes s, which stand for themselves, make of g.
Extended(g, h, s) ==
  /\ Within(g, h) /\ h.ctl = "string" /\ ~h.high
  /\ h.paired <=> g.paired /\ ~g.high
  /\ h.paired => h.text = IF g.key /\ g.spell THEN g.text \o s ELSE g.text

LEMMA PlainRunFacts ==
  ASSUME NEW g \in Automaton, g.ctl = "string", NEW s \in Seq(Marks), s # <<>>,
         \A i \in 1..Len(s) : s[i] \notin Special
  PROVE  Extended(g, GrammarRun(g, s), s)
<1> DEFINE n == Len(s)
<1>0. n \in Nat /\ n >= 1
  OBVIOUS
<1>1. PICK f : Trace(f, g, s) /\ GrammarRun(g, s) = f[n]
  BY RunTrace
<1> DEFINE T == {k \in 0..n : k > 0 => Extended(g, f[k], SubSeq(s, 1, k))}
<1>2. 0 \in T
  BY <1>0
<1>3. ASSUME NEW k \in 0..(n - 1), k \in T PROVE k + 1 \in T
  <2>1. /\ k + 1 \in 1..n /\ k + 1 \in 0..n /\ (k + 1) - 1 = k /\ k \in Nat
    BY <1>0
  <2>2. f[k + 1] = GrammarStep(f[k], s[k + 1]) /\ s[k + 1] \in Marks
        /\ s[k + 1] \notin Special
    BY <1>1, <2>1 DEF Trace
  <2> DEFINE c == s[k + 1]
             u == SubSeq(s, 1, k)
             e == f[k]
             h == f[k + 1]
  <2>3. u \in Seq(Marks) /\ SubSeq(s, 1, k + 1) = Append(u, c)
    BY <2>1
  <2>4. e \in Automaton /\ e.ctl = "string"
    <3>1. CASE k = 0
      BY <1>1, <3>1 DEF Trace
    <3>2. CASE k # 0
      <4>1. k > 0
        BY <3>2
      <4>2. Extended(g, e, u)
        BY <1>3, <4>1
      <4> QED
        BY <4>2 DEF Extended, Within
    <3> QED
      BY <3>1, <3>2
  <2>5. Took(e, h, c)
    BY <2>2, <2>4, StringByteFacts
  <2>6. CASE k = 0
    <3>1. e = g /\ u = <<>>
      BY <1>1, <2>6 DEF Trace
    <3>2. g.text \in Seq(Symbols) /\ c \in Symbols
      BY <2>2, MarksAreSymbols DEF Automaton
    <3>3. g.text \o Append(u, c) = Append(g.text, c)
      BY <3>1, <3>2
    <3> HIDE DEF c, u, e, h
    <3>4. Extended(g, h, Append(u, c))
      BY <2>5, <3>1, <3>3 DEF Extended, Took, Spelled
    <3> QED
      BY <2>1, <2>3, <3>4 DEF h
  <2>7. CASE k # 0
    <3>1. Extended(g, e, u)
      BY <1>3, <2>1, <2>7
    <3>2. g.text \in Seq(Symbols) /\ c \in Symbols /\ u \in Seq(Symbols)
      <4>1. g.text \in Seq(Symbols) /\ c \in Symbols
        BY <2>2, MarksAreSymbols DEF Automaton
      <4>2. u \in Seq(Symbols)
        BY <2>3, MarksAreSymbols
      <4> QED
        BY <4>1, <4>2
    <3>3. g.text \o Append(u, c) = Append(g.text \o u, c)
      <4> DEFINE x == g.text
      <4>1. x \in Seq(Symbols)
        BY <3>2
      <4> HIDE DEF x, u, c
      <4>2. x \o Append(u, c) = Append(x \o u, c)
        BY <3>2, <4>1, ConcatAppend
      <4> QED
        BY <4>2 DEF x
    <3> HIDE DEF c, u, e, h
    <3>4. Extended(g, h, Append(u, c))
      BY <2>5, <3>1, <3>3 DEF Extended, Took, Spelled, Within
    <3> QED
      BY <2>1, <2>3, <3>4 DEF h
  <2> QED
    BY <2>6, <2>7
<1> HIDE DEF T
<1>4. \A k \in 0..n : k \in T
  BY <1>0, <1>2, <1>3, InductTo
<1>5. Extended(g, f[n], SubSeq(s, 1, n))
  BY <1>0, <1>4 DEF T
<1>6. SubSeq(s, 1, n) = s
  OBVIOUS
<1> QED
  BY <1>1, <1>5, <1>6

\* An escape of four digits, read at once.
LEMMA QuadFacts ==
  ASSUME NEW g \in Automaton, g.ctl = "string", NEW s \in Seq(Marks), Len(s) = 6,
         s[1] = Backslash, s[2] = "u", IsQuad(s, 3)
  PROVE  Pointed(g, GrammarRun(g, s), Quad(s, 3))
<1>1. PICK f : Trace(f, g, s) /\ GrammarRun(g, s) = f[6]
  BY RunTrace
<1>2. /\ s[1] \in Marks /\ s[2] \in Marks /\ s[3] \in Marks /\ s[4] \in Marks
      /\ s[5] \in Marks /\ s[6] \in Marks
  <2>1. \A k \in 1..Len(s) : s[k] \in Marks
    BY PartsOfText
  <2>2. 1..Len(s) = 1..6
    OBVIOUS
  <2>3. 1 \in 1..6 /\ 2 \in 1..6 /\ 3 \in 1..6 /\ 4 \in 1..6 /\ 5 \in 1..6 /\ 6 \in 1..6
    OBVIOUS
  <2> QED
    BY <2>1, <2>2, <2>3, Zenon
<1>3. /\ s[3] \in HexDigits /\ s[4] \in HexDigits /\ s[5] \in HexDigits /\ s[6] \in HexDigits
  BY DEF IsQuad
<1>4. /\ f[0] = g /\ f[1] = GrammarStep(f[0], s[1]) /\ f[2] = GrammarStep(f[1], s[2])
      /\ f[3] = GrammarStep(f[2], s[3]) /\ f[4] = GrammarStep(f[3], s[4])
      /\ f[5] = GrammarStep(f[4], s[5]) /\ f[6] = GrammarStep(f[5], s[6])
  <2>1. \A k \in 1..6 : f[k] = GrammarStep(f[k - 1], s[k])
    BY <1>1 DEF Trace
  <2>2. f[0] = g
    BY <1>1 DEF Trace
  <2>3. 1 - 1 = 0 /\ 2 - 1 = 1 /\ 3 - 1 = 2 /\ 4 - 1 = 3 /\ 5 - 1 = 4 /\ 6 - 1 = 5
    OBVIOUS
  <2>4. 1 \in 1..6 /\ 2 \in 1..6 /\ 3 \in 1..6 /\ 4 \in 1..6 /\ 5 \in 1..6 /\ 6 \in 1..6
    OBVIOUS
  <2> QED
    BY <2>1, <2>2, <2>3, <2>4
<1> DEFINE a == HexValue(s[3])
           b == HexValue(s[4])
           c == HexValue(s[5])
           d == HexValue(s[6])
<1>5. a \in Int /\ b \in Int /\ c \in Int /\ d \in Int
  BY <1>3, HexValueType
<1>6. Moved(f[0], f[1], "escape") /\ f[1] \in Automaton /\ f[1].ctl = "escape"
  BY <1>2, <1>4, StringByteFacts DEF Moved, Within
<1>7. Moved(f[1], f[2], "hex") /\ f[2].left = 4 /\ f[2].cp = 0
      /\ f[2] \in Automaton /\ f[2].ctl = "hex"
  BY <1>2, <1>4, <1>6, EscapeByteFacts DEF Moved, Within
<1>8. Moved(f[2], f[3], "hex") /\ f[3].left = 3 /\ f[3].cp = 0 * 16 + a
      /\ f[3] \in Automaton /\ f[3].ctl = "hex"
  BY <1>2, <1>3, <1>4, <1>7, HexByteFacts DEF Moved, Within
<1>9. Moved(f[3], f[4], "hex") /\ f[4].left = 2 /\ f[4].cp = (0 * 16 + a) * 16 + b
      /\ f[4] \in Automaton /\ f[4].ctl = "hex"
  BY <1>2, <1>3, <1>4, <1>8, HexByteFacts DEF Moved, Within
<1>10. Moved(f[4], f[5], "hex") /\ f[5].left = 1
       /\ f[5].cp = ((0 * 16 + a) * 16 + b) * 16 + c
       /\ f[5] \in Automaton /\ f[5].ctl = "hex"
  BY <1>2, <1>3, <1>4, <1>9, HexByteFacts DEF Moved, Within
<1>11. Pointed(f[5], f[6], (((0 * 16 + a) * 16 + b) * 16 + c) * 16 + d)
  BY <1>2, <1>3, <1>4, <1>10, HexByteFacts
<1>12. (((0 * 16 + a) * 16 + b) * 16 + c) * 16 + d = Quad(s, 3)
  <2>1. Quad(s, 3) = 4096 * a + 256 * b + 16 * c + d
    BY DEF Quad
  <2> HIDE DEF a, b, c, d
  <2> QED
    BY <1>5, <2>1
<1> HIDE DEF a, b, c, d
<1>13. Pointed(f[5], f[6], Quad(s, 3))
  BY <1>11, <1>12
<1>14. /\ f[5].stack = g.stack /\ f[5].key = g.key /\ f[5].spell = g.spell
       /\ f[5].past = g.past /\ f[5].high = g.high /\ f[5].paired = g.paired
       /\ f[5].text = g.text
  BY <1>4, <1>6, <1>7, <1>8, <1>9, <1>10 DEF Moved, Within
<1> QED
  BY <1>1, <1>13, <1>14 DEF Pointed, Within, Spelled

\* Two automata that read a number stay together, whatever surrounds it.
LEMMA NumberSteps ==
  ASSUME NEW g \in Automaton, NEW e \in Automaton, g.ctl \in NumberStates \cup {"dead"},
         e.ctl = g.ctl, NEW B, NEW s \in Seq(B), \A i \in 1..Len(s) : s[i] \in NumberBytes
  PROVE  LET h == GrammarRun(g, s) IN
         /\ h \in Automaton /\ h.ctl = GrammarRun(e, s).ctl
         /\ h.ctl \in NumberStates \cup {"dead"}
         /\ h.paired = g.paired /\ h.spell = g.spell
         /\ h.ctl # "dead" => h.stack = g.stack /\ g.ctl # "dead"
         /\ g.stack # <<>> \/ g.ctl = "dead" => h.past = g.past
<1> DEFINE n == Len(s)
<1>0. n \in Nat
  OBVIOUS
<1>1. PICK f : Trace(f, g, s) /\ GrammarRun(g, s) = f[n]
  BY RunTrace
<1>2. PICK d : Trace(d, e, s) /\ GrammarRun(e, s) = d[n]
  BY RunTrace
<1> DEFINE With(h, x) ==
             /\ h \in Automaton /\ x \in Automaton /\ h.ctl = x.ctl
             /\ h.ctl \in NumberStates \cup {"dead"}
             /\ h.paired = g.paired /\ h.spell = g.spell
             /\ h.ctl # "dead" => h.stack = g.stack /\ g.ctl # "dead"
             /\ g.stack # <<>> \/ g.ctl = "dead" => h.past = g.past
           T == {k \in 0..n : With(f[k], d[k])}
<1>3. 0 \in T
  BY <1>0, <1>1, <1>2 DEF Trace
<1>4. ASSUME NEW k \in 0..(n - 1), k \in T PROVE k + 1 \in T
  <2>1. /\ k + 1 \in 1..n /\ k + 1 \in 0..n /\ (k + 1) - 1 = k
    BY <1>0
  <2>2. f[k + 1] = GrammarStep(f[k], s[k + 1]) /\ d[k + 1] = GrammarStep(d[k], s[k + 1])
        /\ s[k + 1] \in NumberBytes
    BY <1>1, <1>2, <2>1 DEF Trace
  <2>3. With(f[k], d[k])
    BY <1>4
  <2>4. /\ f[k + 1] \in Automaton /\ f[k + 1].ctl = NumberNext(f[k].ctl, s[k + 1])
        /\ f[k + 1].paired = f[k].paired /\ f[k + 1].spell = f[k].spell
        /\ f[k + 1].ctl # "dead" => f[k + 1].stack = f[k].stack
        /\ f[k].stack # <<>> \/ f[k].ctl \notin NumberEnds => f[k + 1].past = f[k].past
    BY <2>2, <2>3, NumberByteFacts
  <2>5. d[k + 1] \in Automaton /\ d[k + 1].ctl = NumberNext(d[k].ctl, s[k + 1])
    BY <2>2, <2>3, NumberByteFacts
  <2>6. f[k + 1].ctl \in NumberStates \cup {"dead"}
    BY <2>3, <2>4, NumberNextType
  <2>7. f[k].ctl = "dead" => f[k + 1].ctl = "dead"
    BY <2>4 DEF NumberNext
  <2>8. "dead" \notin NumberEnds
    BY DEF NumberEnds
  <2>9. With(f[k + 1], d[k + 1])
    BY <2>3, <2>4, <2>5, <2>6, <2>7, <2>8
  <2> HIDE DEF With
  <2> QED
    BY <2>1, <2>9
<1> HIDE DEF T
<1>5. \A k \in 0..n : k \in T
  BY <1>0, <1>3, <1>4, InductTo
<1>6. With(f[n], d[n])
  BY <1>0, <1>5 DEF T
<1> QED
  BY <1>1, <1>2, <1>6

-----------------------------------------------------------------------------
(***************************************************************************)
(* The parser that follows the grammar.                                    *)
(***************************************************************************)

\* The open containers, as the grammar sees them.
Kinds(q) == [i \in 1..Len(q.frames) |-> q.frames[i].kind]

\* What the grammar expects where a frame is.
Expects(f) ==
  CASE f.state = "key"   -> IF f.comma THEN "key" ELSE "firstKey"
    [] f.state = "item"  -> IF f.comma THEN "item" ELSE "firstItem"
    [] f.state = "comma" -> "after"
    [] OTHER             -> f.state

Place(q) ==
  IF q.frames # <<>> THEN Expects(Top(q)) ELSE IF q.started THEN "done" ELSE "root"

\* The states of an object and of an array.
Fitting(f) ==
  f.state \in IF f.kind = "object" THEN {"key", "colon", "value", "comma"} ELSE {"item", "comma"}

\* A token outside every container is the document of a validating parser.
Flags(q) ==
  /\ q.frames # <<>> => q.started
  /\ q.frames # <<>> /\ q.lex = "none" => Fitting(Top(q))
  /\ q.frames = <<>> /\ q.lex # "none" => q.validate /\ ~q.started
  /\ q.finished <=> q.frames = <<>> /\ q.started
  /\ q.lex # "none" /\ q.isKey => q.lex = "string" /\ Top(q).kind = "object" /\ q.frames # <<>>
  /\ q.capture = "token" \/ q.lex # "string" \/ q.validate
  /\ q.validate => q.capture = "discard" \/ q.lex # "string"

Shows(t, sym) == \E i \in DOMAIN t : t[i] = sym
\* Two spellings of a key that are equal or both name a code point.
SameSpelling(t, u) == t = u \/ (Shows(t, CodePoint) /\ Shows(u, CodePoint))

FieldOf(text) == IF text \in DOMAIN FieldKind THEN {text} ELSE {}

InNone(q, g) ==
  /\ g.ctl = Place(q) \/ (g.ctl \in NumberEnds /\ Place(q) \in {"after", "done"})
  /\ (q.frames # <<>> /\ Top(q).map /\ Top(q).state \in {"colon", "value"} /\ g.paired) =>
        Top(q).field = FieldOf(g.text)

\* What a string token says: the key its bytes spell, as far as its
\* surrogates are paired.
Spelling(q, g) ==
  /\ g.key = q.isKey
  /\ g.high => q.high # 0
  /\ g.paired /\ q.high # 0 => g.high
  /\ q.isKey /\ g.paired => SameSpelling(q.token, g.text)

InText(q, g) ==
  /\ g.ctl = IF q.need # 0 THEN "hex" ELSE IF q.escape THEN "escape" ELSE "string"
  /\ q.need # 0 => /\ ~q.escape /\ q.need <= 4 /\ g.left = q.need /\ g.cp = q.acc
  /\ Spelling(q, g)

InNumber(q, g) ==
  /\ q.token # <<>>
  /\ q.token[1] \in Digits \cup {"-"}
  /\ \A i \in DOMAIN q.token : q.token[i] \in NumberBytes
  /\ g.ctl = GrammarRun(GrammarStart(FALSE), q.token).ctl

InLiteral(q, g) ==
  /\ g.ctl = "literal"
  /\ Len(q.token) < Len(Literals[q.lex])
  /\ g.want = SubSeq(Literals[q.lex], Len(q.token) + 1, Len(Literals[q.lex]))

Follows(q, g) ==
  /\ Flags(q)
  /\ g.ctl # "dead" => g.stack = Kinds(q)
  /\ g.spell = ~q.validate
  /\ q.lex = "none" => InNone(q, g)
  /\ q.lex = "string" => InText(q, g)
  /\ q.lex = "number" => InNumber(q, g)
  /\ q.lex \in DOMAIN Literals => InLiteral(q, g)

Refused(q, g) == q.code = "INVALID_JSON" => g.ctl = "dead" \/ ~g.paired

-----------------------------------------------------------------------------
(***************************************************************************)
(* The frames as the grammar sees them.                                    *)
(***************************************************************************)

LEMMA KindsType ==
  ASSUME NEW q \in Parser
  PROVE  /\ Kinds(q) \in Seq({"object", "array"}) /\ Len(Kinds(q)) = Len(q.frames)
         /\ Kinds(q) = <<>> <=> q.frames = <<>>
         /\ q.frames # <<>> => Last(Kinds(q)) = Top(q).kind
<1>1. q.frames \in Seq(Frame) /\ Len(q.frames) \in Nat
  BY DEF Parser
<1>2. \A i \in 1..Len(q.frames) : q.frames[i].kind \in {"object", "array"}
  <2>1. \A i \in 1..Len(q.frames) : q.frames[i] \in Frame
    BY <1>1
  <2> QED
    BY <2>1 DEF Frame
<1>3. Kinds(q) \in Seq({"object", "array"}) /\ Len(Kinds(q)) = Len(q.frames)
  BY <1>1, <1>2 DEF Kinds
<1>4. Kinds(q) = <<>> <=> q.frames = <<>>
  BY <1>1, <1>3
<1>5. ASSUME q.frames # <<>> PROVE Last(Kinds(q)) = Top(q).kind
  <2>1. Len(q.frames) \in 1..Len(q.frames)
    BY <1>1, <1>5
  <2> QED
    BY <1>3, <2>1 DEF Last, Top, Kinds
<1> QED
  BY <1>3, <1>4, <1>5

\* What a change of the frames alone keeps.
Kept(q, r) == /\ r.validate = q.validate /\ r.started = q.started
              /\ r.finished = q.finished /\ r.lex = q.lex /\ r.code = q.code
              /\ r.token = q.token /\ r.isKey = q.isKey

LEMMA TopSet ==
  ASSUME NEW q \in Parser, q.frames # <<>>, NEW f \in Frame
  PROVE  LET r == SetTop(q, f) IN
         /\ r \in Parser /\ r.frames # <<>> /\ Len(r.frames) = Len(q.frames)
         /\ Top(r) = f /\ Kept(q, r)
         /\ f.kind = Top(q).kind => Kinds(r) = Kinds(q)
<1> DEFINE r == SetTop(q, f)
           s == [q.frames EXCEPT ![Len(q.frames)] = f]
<1>1. q.frames \in Seq(Frame) /\ Len(q.frames) \in 1..Len(q.frames)
  BY DEF Parser
<1>2. s \in Seq(Frame) /\ Len(s) = Len(q.frames) /\ s[Len(q.frames)] = f
      /\ \A i \in 1..Len(q.frames) : i # Len(q.frames) => s[i] = q.frames[i]
  BY <1>1
<1>3. r = [q EXCEPT !.frames = s]
  BY <1>1 DEF SetTop, Parser
<1> HIDE DEF s, r
<1>4. r \in Parser /\ r.frames = s /\ Kept(q, r)
  BY <1>2, <1>3 DEF Parser, Kept
<1>5. Top(r) = f
  BY <1>2, <1>4 DEF Top, Last
<1>6. ASSUME f.kind = Top(q).kind PROVE Kinds(r) = Kinds(q)
  <2>1. \A i \in 1..Len(q.frames) : s[i].kind = q.frames[i].kind
    BY <1>2, <1>6 DEF Top, Last
  <2> QED
    BY <1>2, <1>4, <2>1 DEF Kinds
<1>7. r.frames # <<>> /\ Len(r.frames) = Len(q.frames)
  BY <1>1, <1>2, <1>4
<1> QED
  BY <1>4, <1>5, <1>6, <1>7 DEF r

LEMMA Pushed ==
  ASSUME NEW q \in Parser, NEW f \in Frame
  PROVE  LET r == [q EXCEPT !.frames = Append(q.frames, f)] IN
         /\ r \in Parser /\ r.frames # <<>> /\ Top(r) = f /\ Kept(q, r)
         /\ Kinds(r) = Append(Kinds(q), f.kind)
<1> DEFINE s == Append(q.frames, f)
           r == [q EXCEPT !.frames = s]
           n == Len(q.frames)
<1>1. q.frames \in Seq(Frame) /\ n \in Nat
  BY DEF Parser
<1>2. s \in Seq(Frame) /\ Len(s) = n + 1 /\ s[n + 1] = f
      /\ \A i \in 1..n : s[i] = q.frames[i]
  BY <1>1
<1> HIDE DEF s
<1>3. r \in Parser /\ r.frames = s /\ Kept(q, r)
  BY <1>2 DEF Parser, Kept
<1> HIDE DEF r
<1>4. Top(r) = f /\ r.frames # <<>>
  BY <1>1, <1>2, <1>3 DEF Top, Last
<1>5. Kinds(r) = Append(Kinds(q), f.kind)
  <2> DEFINE k == Kinds(q)
             e == Kinds(r)
             a == Append(k, f.kind)
  <2>1. /\ k \in Seq({"object", "array"}) /\ Len(k) = n
        /\ \A i \in 1..n : k[i] = q.frames[i].kind
    BY <1>1, KindsType DEF Kinds
  <2>2. /\ e \in Seq({"object", "array"}) /\ Len(e) = n + 1
        /\ \A i \in 1..(n + 1) : e[i] = s[i].kind
    BY <1>1, <1>2, <1>3, KindsType DEF Kinds
  <2>3. f.kind \in {"object", "array"}
    BY DEF Frame
  <2> HIDE DEF k, e, n
  <2>4. a \in Seq({"object", "array"}) /\ Len(a) = n + 1 /\ a[n + 1] = f.kind
        /\ \A i \in 1..n : a[i] = k[i]
    BY <2>1, <2>3
  <2>5. \A i \in 1..(n + 1) : e[i] = a[i]
    <3> SUFFICES ASSUME NEW i \in 1..(n + 1) PROVE e[i] = a[i]
      OBVIOUS
    <3>1. CASE i = n + 1
      BY <1>2, <2>2, <2>4, <3>1
    <3>2. CASE i # n + 1
      <4>1. i \in 1..n
        BY <1>1, <3>2
      <4>2. e[i] = s[i].kind /\ a[i] = k[i] /\ k[i] = q.frames[i].kind /\ s[i] = q.frames[i]
        BY <1>2, <2>1, <2>2, <2>4, <4>1
      <4> QED
        BY <4>2
    <3> QED
      BY <3>1, <3>2
  <2> HIDE DEF a
  <2>6. e = a
    BY <2>2, <2>4, <2>5
  <2> QED
    BY <2>6 DEF e, a, k
<1> QED
  BY <1>3, <1>4, <1>5 DEF r, s

LEMMA Popped ==
  ASSUME NEW q \in Parser, q.frames # <<>>
  PROVE  LET r == PopFrame(q) IN
         r \in Parser /\ Kept(q, r) /\ Kinds(r) = Front(Kinds(q))
<1> DEFINE s == Front(q.frames)
           r == [q EXCEPT !.frames = s]
           n == Len(q.frames)
<1>1. q.frames \in Seq(Frame) /\ n \in Nat /\ n >= 1
  BY DEF Parser
<1>2. s \in Seq(Frame) /\ Len(s) = n - 1 /\ \A i \in 1..(n - 1) : s[i] = q.frames[i]
  BY <1>1 DEF Front
<1>0. PopFrame(q) = r
  BY DEF PopFrame
<1> HIDE DEF s
<1>3. r \in Parser /\ r.frames = s /\ Kept(q, r)
  BY <1>2 DEF Parser, Kept
<1> HIDE DEF r
<1>4. Kinds(r) = Front(Kinds(q))
  <2> DEFINE k == Kinds(q)
             e == Kinds(r)
             a == Front(k)
  <2>1. /\ k \in Seq({"object", "array"}) /\ Len(k) = n
        /\ \A i \in 1..n : k[i] = q.frames[i].kind
    BY <1>1, KindsType DEF Kinds
  <2>2. /\ e \in Seq({"object", "array"}) /\ Len(e) = n - 1
        /\ \A i \in 1..(n - 1) : e[i] = s[i].kind
    BY <1>1, <1>2, <1>3, KindsType DEF Kinds
  <2> HIDE DEF k, e, n
  <2>4. a \in Seq({"object", "array"}) /\ Len(a) = n - 1 /\ \A i \in 1..(n - 1) : a[i] = k[i]
    BY <1>1, <2>1 DEF Front
  <2>5. \A i \in 1..(n - 1) : e[i] = a[i]
    BY <1>1, <1>2, <2>1, <2>2, <2>4
  <2> HIDE DEF a
  <2>6. e = a
    BY <2>2, <2>4, <2>5
  <2> QED
    BY <2>6 DEF e, a, k
<1> QED
  BY <1>0, <1>3, <1>4

-----------------------------------------------------------------------------
(***************************************************************************)
(* Bytes outside every token.                                              *)
(***************************************************************************)

\* What no byte between tokens changes.
Stays(g, h) == h \in Automaton /\ h.spell = g.spell /\ h.paired = g.paired

LEMMA StringStartFacts ==
  ASSUME NEW g \in Automaton, NEW isKey \in BOOLEAN
  PROVE  LET h == StartString(g, isKey) IN
         /\ Stays(g, h) /\ h.past = g.past /\ h.ctl = "string" /\ h.stack = g.stack
         /\ h.key = isKey /\ ~h.high /\ h.text = <<>>
<1>1. <<>> \in Seq(Symbols) /\ "string" \in Ctls
  BY DEF Ctls
<1> QED
  BY <1>1 DEF StartString, Automaton, Stays

\* The words of the grammar.
LEMMA WordFacts ==
  ASSUME NEW c, LiteralOf(c) # {}
  PROVE  LET l == CHOOSE l \in LiteralOf(c) : TRUE IN
         /\ l \in DOMAIN Literals /\ Literals[l] \in Seq(Letters)
         /\ Head(Literals[l]) = c /\ Len(Literals[l]) \in {4, 5}
         /\ c \notin Digits \cup {"-", "{", "[", Quote}
<1> DEFINE l == CHOOSE l \in LiteralOf(c) : TRUE
<1>1. l \in LiteralOf(c)
  OBVIOUS
<1>2. l \in DOMAIN Literals /\ Head(Literals[l]) = c
  BY <1>1 DEF LiteralOf
<1>3. c \in {"t", "f", "n"}
  BY LiteralHeads
<1>4. DOMAIN Literals = {"true", "false", "null"}
  BY DEF Literals
<1>5. \A m \in {"true", "false", "null"} : Literals[m] \in Seq(Letters) /\ Len(Literals[m]) \in {4, 5}
  <2>1. <<"t", "r", "u", "e">> \in Seq(Letters) /\ Len(<<"t", "r", "u", "e">>) = 4
    BY DEF Letters
  <2>2. <<"f", "a", "l", "s", "e">> \in Seq(Letters) /\ Len(<<"f", "a", "l", "s", "e">>) = 5
    BY DEF Letters
  <2>3. <<"n", "u", "l", "l">> \in Seq(Letters) /\ Len(<<"n", "u", "l", "l">>) = 4
    BY DEF Letters
  <2>4. /\ Literals["true"] = <<"t", "r", "u", "e">>
        /\ Literals["false"] = <<"f", "a", "l", "s", "e">>
        /\ Literals["null"] = <<"n", "u", "l", "l">>
    BY DEF Literals
  <2> QED
    BY <2>1, <2>2, <2>3, <2>4
<1> HIDE DEF l
<1>6. c \notin Digits \cup {"-", "{", "[", Quote}
  BY <1>3 DEF Digits, NonZero, Quote
<1> QED
  BY <1>2, <1>4, <1>5, <1>6 DEF l

\* Bytes that begin a value.
Opening(c) == c \in Digits \cup {"-", "{", "[", Quote} \/ LiteralOf(c) # {}

LEMMA StartFactsOfValue ==
  ASSUME NEW g \in Automaton, NEW c
  PROVE  LET h == StartValue(g, c) IN
         /\ Stays(g, h) /\ h.past = g.past
         /\ c = "{" => h.ctl = "firstKey" /\ h.stack = Append(g.stack, "object")
         /\ c = "[" => h.ctl = "firstItem" /\ h.stack = Append(g.stack, "array")
         /\ c = Quote => h.ctl = "string" /\ h.stack = g.stack /\ ~h.key /\ ~h.high
         /\ c \in Digits \cup {"-"} => h.ctl = NumberHead(c) /\ h.stack = g.stack
         /\ LiteralOf(c) # {} =>
              /\ h.ctl = "literal" /\ h.stack = g.stack
              /\ h.want = Tail(Literals[CHOOSE l \in LiteralOf(c) : TRUE])
         /\ ~Opening(c) => h.ctl = "dead"
<1> DEFINE e == [g EXCEPT !.text = <<>>]
<1>1. <<>> \in Seq(Symbols)
  OBVIOUS
<1>2. e \in Automaton /\ Stays(g, e) /\ e.past = g.past /\ e.stack = g.stack
  BY <1>1 DEF Automaton, Stays
<1>3. e.stack \in Seq({"object", "array"})
  BY <1>2 DEF Automaton
<1>4. StartValue(g, c) =
        CASE c = "{"       -> [e EXCEPT !.ctl = "firstKey", !.stack = Append(@, "object")]
          [] c = "["       -> [e EXCEPT !.ctl = "firstItem", !.stack = Append(@, "array")]
          [] c = Quote     -> StartString(g, FALSE)
          [] c = "-"       -> [e EXCEPT !.ctl = "minus"]
          [] c = "0"       -> [e EXCEPT !.ctl = "zero"]
          [] c \in NonZero -> [e EXCEPT !.ctl = "int"]
          [] LiteralOf(c) # {} ->
               [e EXCEPT !.ctl = "literal",
                         !.want = Tail(Literals[CHOOSE l \in LiteralOf(c) : TRUE])]
          [] OTHER         -> Dead(g)
  BY DEF StartValue
<1> HIDE DEF e
<1> DEFINE h == StartValue(g, c)
<1>11. LiteralOf(c) # {} <=> c \in {"t", "f", "n"}
  BY LiteralHeads, Zenon
<1>5. CASE c = "{"
  <2> DEFINE s == Append(e.stack, "object")
  <2>1. s \in Seq({"object", "array"}) /\ "firstKey" \in Ctls
    BY <1>3 DEF Ctls, Places
  <2>5. LiteralOf(c) = {} /\ Opening(c)
    BY <1>11, <1>5 DEF Opening
  <2>3. c \notin Digits \cup {"-"} /\ c # Quote /\ c # "[" /\ c \notin NonZero
    BY <1>5 DEF Digits, NonZero, Quote
  <2>2. h = [e EXCEPT !.ctl = "firstKey", !.stack = s]
    BY <1>4, <1>5, <2>3, <2>5 DEF Digits
  <2> HIDE DEF s, h
  <2>4. Stays(g, h) /\ h.past = g.past /\ h.ctl = "firstKey" /\ h.stack = s
    BY <1>2, <2>1, <2>2 DEF Automaton, Stays
  <2> QED
    BY <1>2, <1>5, <2>3, <2>4, <2>5 DEF h, s
<1>6. CASE c = "["
  <2> DEFINE s == Append(e.stack, "array")
  <2>1. s \in Seq({"object", "array"}) /\ "firstItem" \in Ctls
    BY <1>3 DEF Ctls, Places
  <2>5. LiteralOf(c) = {} /\ Opening(c)
    BY <1>11, <1>6 DEF Opening
  <2>3. c \notin Digits \cup {"-"} /\ c # Quote /\ c # "{" /\ c \notin NonZero
    BY <1>6 DEF Digits, NonZero, Quote
  <2>2. h = [e EXCEPT !.ctl = "firstItem", !.stack = s]
    BY <1>4, <1>6, <2>3, <2>5 DEF Digits
  <2> HIDE DEF s, h
  <2>4. Stays(g, h) /\ h.past = g.past /\ h.ctl = "firstItem" /\ h.stack = s
    BY <1>2, <2>1, <2>2 DEF Automaton, Stays
  <2> QED
    BY <1>2, <1>6, <2>3, <2>4, <2>5 DEF h, s
<1>7. CASE c = Quote
  <2>2. LiteralOf(c) = {} /\ Opening(c)
    BY <1>7, <1>11 DEF Opening, Quote
  <2>3. c \notin Digits \cup {"-"} /\ c # "{" /\ c # "["
    BY <1>7 DEF Digits, NonZero, Quote
  <2>1. h = StartString(g, FALSE)
    BY <1>4, <1>7, <2>2, <2>3 DEF Digits
  <2>4. /\ Stays(g, h) /\ h.past = g.past /\ h.ctl = "string" /\ h.stack = g.stack
        /\ ~h.key /\ ~h.high
    BY <2>1, StringStartFacts
  <2> HIDE DEF h
  <2> QED
    BY <1>7, <2>2, <2>3, <2>4 DEF h
<1>8. CASE c \in Digits \cup {"-"}
  <2>1. Within(g, h) /\ h.ctl = NumberHead(c) /\ h.paired = g.paired
    BY <1>8, NumberStartFacts
  <2>2. LiteralOf(c) = {} /\ c # "{" /\ c # "[" /\ c # Quote /\ Opening(c)
    BY <1>8, <1>11 DEF Digits, NonZero, Quote, Opening
  <2> HIDE DEF h
  <2> QED
    BY <2>1, <2>2 DEF Within, Stays, h
<1>9. CASE LiteralOf(c) # {}
  <2> DEFINE w == Tail(Literals[CHOOSE l \in LiteralOf(c) : TRUE])
  <2>1. c \notin Digits \cup {"-", "{", "[", Quote} /\ Opening(c)
    BY <1>9, WordFacts DEF Opening
  <2>2. w \in Seq(Letters) /\ "literal" \in Ctls
    <3> DEFINE t == Literals[CHOOSE l \in LiteralOf(c) : TRUE]
    <3>1. t \in Seq(Letters) /\ Len(t) \in {4, 5}
      BY <1>9, WordFacts
    <3> HIDE DEF t
    <3>2. Tail(t) \in Seq(Letters)
      BY <3>1
    <3> QED
      BY <3>2 DEF t, Ctls
  <2>3. h = [e EXCEPT !.ctl = "literal", !.want = w]
    BY <1>4, <1>9, <2>1 DEF Digits
  <2> HIDE DEF w, h
  <2>4. Stays(g, h) /\ h.past = g.past /\ h.ctl = "literal" /\ h.stack = g.stack /\ h.want = w
    BY <1>2, <2>2, <2>3 DEF Automaton, Stays
  <2> QED
    BY <1>9, <2>1, <2>4 DEF h, w
<1>10. CASE ~Opening(c)
  <2>1. h = Dead(g)
    BY <1>4, <1>10 DEF Opening, Digits
  <2>2. LiteralOf(c) = {} /\ c \notin Digits \cup {"-", "{", "[", Quote}
    BY <1>10 DEF Opening
  <2> HIDE DEF h
  <2> QED
    BY <2>1, <2>2, DeadFacts DEF Stays, h
<1> QED
  BY <1>5, <1>6, <1>7, <1>8, <1>9, <1>10 DEF Opening

LEMMA ValueKept ==
  ASSUME NEW g \in Automaton, NEW c
  PROVE  Stays(g, StartValue(g, c)) /\ StartValue(g, c).past = g.past
  BY StartFactsOfValue, Zenon

LEMMA KeyKept ==
  ASSUME NEW g \in Automaton
  PROVE  Stays(g, StartString(g, TRUE)) /\ StartString(g, TRUE).past = g.past
  BY StringStartFacts

LEMMA CloseKept ==
  ASSUME NEW g \in Automaton
  PROVE  Stays(g, Close(g)) /\ Close(g).past = g.past
  BY CloseFacts DEF Stays

\* What the byte does in each place.
Comma(g) == IF Last(g.stack) = "object" THEN "key" ELSE "item"
Closer(g) == IF Last(g.stack) = "object" THEN "}" ELSE "]"

LEMMA BetweenFacts ==
  ASSUME NEW g \in Automaton, g.ctl \in Places, NEW c
  PROVE  LET h == BetweenStep(g, c) IN
         /\ Stays(g, h) /\ (g.ctl # "done" => h.past = g.past)
         /\ c \in Spaces => h.ctl = g.ctl /\ h.stack = g.stack /\ h.text = g.text
         /\ c \notin Spaces =>
              /\ g.ctl = "done" => h.ctl = "dead"
              /\ g.ctl \in {"root", "value", "item"} => h = StartValue(g, c)
              /\ g.ctl \in {"firstKey", "key"} =>
                   /\ c = Quote => h = StartString(g, TRUE)
                   /\ g.ctl = "firstKey" /\ c = "}" => h = Close(g)
                   /\ c # Quote /\ ~(g.ctl = "firstKey" /\ c = "}") => h.ctl = "dead"
              /\ g.ctl = "colon" => h = IF c = ":" THEN [g EXCEPT !.ctl = "value"] ELSE Dead(g)
              /\ g.ctl = "firstItem" => h = IF c = "]" THEN Close(g) ELSE StartValue(g, c)
              /\ g.ctl = "after" =>
                   /\ c = "," => h = [g EXCEPT !.ctl = Comma(g)]
                   /\ c = Closer(g) => h = Close(g)
                   /\ c # "," /\ c # Closer(g) => h.ctl = "dead"
<1> DEFINE h == BetweenStep(g, c)
<1>0. Dead(g) \in Automaton /\ Stays(g, Dead(g)) /\ Dead(g).past = g.past /\ Dead(g).ctl = "dead"
  BY DeadFacts DEF Stays
<1>1. CASE g.ctl = "done"
  <2> DEFINE d == Dead(g)
  <2>1. h = [(IF c \in Spaces THEN g ELSE d) EXCEPT !.past = TRUE]
    BY <1>1 DEF BetweenStep
  <2> HIDE DEF d, h
  <2>2. CASE c \in Spaces
    <3>1. h = [g EXCEPT !.past = TRUE]
      BY <2>1, <2>2
    <3>2. Stays(g, h) /\ h.ctl = g.ctl /\ h.stack = g.stack /\ h.text = g.text
      BY <3>1 DEF Automaton, Stays
    <3> QED
      BY <1>1, <2>2, <3>2 DEF h
  <2>3. CASE c \notin Spaces
    <3>1. h = [d EXCEPT !.past = TRUE] /\ d \in Automaton /\ d.spell = g.spell
          /\ d.paired = g.paired /\ d.ctl = "dead"
      BY <1>0, <2>1, <2>3 DEF d, Stays
    <3>2. Stays(g, h) /\ h.ctl = "dead"
      BY <3>1 DEF Automaton, Stays
    <3> QED
      BY <1>1, <2>3, <3>2 DEF h
  <2> QED
    BY <2>2, <2>3
<1>2. CASE g.ctl # "done" /\ c \in Spaces
  <2>1. h = g
    BY <1>2 DEF BetweenStep
  <2> QED
    BY <1>2, <2>1 DEF Stays
<1>3. CASE g.ctl = "root" /\ c \notin Spaces
  <2>1. h = StartValue(g, c)
    BY <1>3 DEF BetweenStep
  <2>2. Stays(g, h) /\ h.past = g.past
    BY <2>1, ValueKept
  <2> HIDE DEF h
  <2> QED
    BY <1>3, <2>1, <2>2 DEF h
<1>4. CASE g.ctl \notin {"done", "root"} /\ c \notin Spaces
  <2>0. h = ContainerStep(g, c)
    BY <1>4 DEF BetweenStep
  <2> HIDE DEF h
  <2>8. /\ Stays(g, StartString(g, TRUE)) /\ StartString(g, TRUE).past = g.past
        /\ Stays(g, Close(g)) /\ Close(g).past = g.past
        /\ Stays(g, StartValue(g, c)) /\ StartValue(g, c).past = g.past
    BY KeyKept, CloseKept, ValueKept
  <2>1. CASE g.ctl \in {"firstKey", "key"}
    <3>1. h = IF c = Quote THEN StartString(g, TRUE)
              ELSE IF g.ctl = "firstKey" /\ c = "}" THEN Close(g) ELSE Dead(g)
      BY <2>0, <2>1 DEF ContainerStep, Quote
    <3>2. Quote # "}"
      BY DEF Quote
    <3> QED
      BY <1>0, <1>4, <2>1, <2>8, <3>1, <3>2 DEF h
  <2>2. CASE g.ctl = "colon"
    <3> DEFINE v == [g EXCEPT !.ctl = "value"]
    <3>1. h = IF c = ":" THEN v ELSE Dead(g)
      BY <2>0, <2>2 DEF ContainerStep
    <3>2. "value" \in Ctls
      BY DEF Ctls, Places
    <3>3. Stays(g, v) /\ v.past = g.past
      BY <3>2, CtlFacts DEF Within, Stays
    <3> HIDE DEF v
    <3>4. Stays(g, h) /\ h.past = g.past
      BY <1>0, <3>1, <3>3
    <3> QED
      BY <1>4, <2>2, <3>1, <3>4 DEF h, v
  <2>3. CASE g.ctl \in {"value", "item"}
    <3>1. h = StartValue(g, c)
      BY <2>0, <2>3 DEF ContainerStep
    <3> QED
      BY <1>4, <2>3, <2>8, <3>1 DEF h
  <2>4. CASE g.ctl = "firstItem"
    <3>1. h = IF c = "]" THEN Close(g) ELSE StartValue(g, c)
      BY <2>0, <2>4 DEF ContainerStep
    <3> QED
      BY <1>4, <2>4, <2>8, <3>1 DEF h
  <2>5. CASE g.ctl = "after"
    <3> DEFINE v == [g EXCEPT !.ctl = Comma(g)]
    <3>1. h = IF c = "," THEN v ELSE IF c = Closer(g) THEN Close(g) ELSE Dead(g)
      BY <2>0, <2>5 DEF ContainerStep, Comma, Closer
    <3>2. Comma(g) \in Ctls /\ Closer(g) # ","
      BY DEF Ctls, Places, Comma, Closer
    <3>3. Stays(g, v) /\ v.past = g.past
      BY <3>2, CtlFacts DEF Within, Stays
    <3> HIDE DEF v
    <3>4. Stays(g, h) /\ h.past = g.past
      BY <1>0, <2>8, <3>1, <3>3
    <3> QED
      BY <1>0, <1>4, <2>5, <3>1, <3>2, <3>4 DEF h, v
  <2> QED
    BY <1>4, <2>1, <2>2, <2>3, <2>4, <2>5 DEF Places
<1> QED
  BY <1>1, <1>2, <1>3, <1>4

\* A number ends at a byte that no number holds.
LEMMA NumberEndFacts ==
  ASSUME NEW g \in Automaton, g.ctl \in NumberStates \cup {"dead"}, NEW c, c \notin NumberBytes
  PROVE  /\ g.ctl \in NumberEnds => GrammarStep(g, c) = BetweenStep(EndValue(g), c)
         /\ g.ctl \notin NumberEnds => GrammarStep(g, c).ctl = "dead"
         /\ g.ctl \notin NumberEnds =>
              /\ GrammarStep(g, c) \in Automaton /\ GrammarStep(g, c).past = g.past
              /\ GrammarStep(g, c).spell = g.spell
<1>1. CASE g.ctl = "dead"
  <2>1. GrammarStep(g, c) = g /\ g.ctl \notin NumberEnds
    BY <1>1 DEF GrammarStep, NumberEnds, NumberStates
  <2> QED
    BY <1>1, <2>1
<1>2. CASE g.ctl \in NumberStates
  <2>1. NumberStep(g.ctl, c) = "end"
    BY <1>2 DEF NumberStep, NumberBytes, NumberStates, Digits
  <2>2. GrammarStep(g, c) = IF g.ctl \in NumberEnds THEN BetweenStep(EndValue(g), c) ELSE Dead(g)
    BY <1>2, <2>1 DEF GrammarStep, NumberStates
  <2> QED
    BY <2>2, DeadFacts
<1> QED
  BY <1>1, <1>2

LEMMA PlaceStep ==
  ASSUME NEW g \in Automaton, g.ctl \in Places, NEW c
  PROVE  GrammarStep(g, c) = BetweenStep(g, c)
  BY DEF GrammarStep, Places, NumberStates

-----------------------------------------------------------------------------
(***************************************************************************)
(* Values that end and containers that open.                               *)
(***************************************************************************)

\* A parser inside a container, and one whose value has just ended there.
Inside(q) == Between(q) /\ Ok(q) /\ q.frames # <<>> /\ q.started /\ ~q.finished
Settled(q, stack) ==
  /\ q \in Parser /\ q.lex = "none" /\ Flags(q) /\ Kinds(q) = stack
  /\ Place(q) = After(stack)
  /\ q.frames # <<>> => Top(q).state = "comma"

\* r: a parser that has taken the value q was reading, or failed.
Completes(q, r, stack) ==
  /\ r.validate = q.validate /\ r.code # "INVALID_JSON"
  /\ Ok(r) => Settled(r, stack)

LEMMA FailFacts ==
  ASSUME NEW q \in Parser, NEW code
  PROVE  /\ Fail(q, code).validate = q.validate /\ Fail(q, code).code = code
         /\ code # "OK" => ~Ok(Fail(q, code))
  BY DEF Fail, Parser, Ok

LEMMA FailCompletes ==
  ASSUME NEW q \in Parser, NEW r \in Parser, r.validate = q.validate, NEW stack,
         NEW code, code \notin {"OK", "INVALID_JSON"}
  PROVE  Completes(q, Fail(r, code), stack)
  BY FailFacts DEF Completes

\* The flags outside every token.
LEMMA FlagsBetween ==
  ASSUME NEW q, q.lex = "none"
  PROVE  Flags(q) <=> /\ q.frames # <<>> => q.started /\ Fitting(Top(q))
                      /\ q.finished <=> q.frames = <<>> /\ q.started
  BY DEF Flags

LEMMA CompleteParentFacts ==
  ASSUME NEW q, Between(q), q.started, ~q.finished
  PROVE  /\ CompleteParent(q).validate = q.validate
         /\ CompleteParent(q).code = q.code
         /\ Settled(CompleteParent(q), Kinds(q))
<1> DEFINE r == CompleteParent(q)
<1>0. q \in Parser /\ q.lex = "none" /\ r \in Parser
  BY CompleteParentSound DEF Between, Sound
<1>1. CASE q.frames = <<>>
  <2>1. r = [q EXCEPT !.finished = TRUE]
    BY <1>1 DEF CompleteParent
  <2>2. /\ r.frames = <<>> /\ r.finished /\ r.started /\ r.lex = "none"
        /\ r.validate = q.validate /\ r.code = q.code
    BY <1>0, <1>1, <2>1 DEF Parser
  <2>3. Kinds(q) = <<>> /\ Kinds(r) = <<>>
    BY <1>0, <1>1, <2>2, KindsType
  <2> HIDE DEF r
  <2>4. Flags(r)
    BY <2>2, FlagsBetween
  <2>5. Place(r) = "done"
    BY <2>2 DEF Place
  <2> QED
    BY <1>0, <2>2, <2>3, <2>4, <2>5 DEF Settled, After, r
<1>2. CASE q.frames # <<>>
  <2> DEFINE field == IF Top(q).kind = "object" THEN {} ELSE Top(q).field
             f == [Top(q) EXCEPT !.state = "comma", !.field = field]
  <2>1. Top(q) \in Frame
    BY <1>0, <1>2, TopType
  <2>2. field \in Fields
    BY <2>1 DEF Frame, Fields
  <2>3. r = SetTop(q, f)
    BY <1>2 DEF CompleteParent
  <2> HIDE DEF field, r
  <2>4. f \in Frame /\ f.kind = Top(q).kind /\ f.state = "comma"
    BY <2>1, <2>2 DEF Frame
  <2> HIDE DEF f
  <2>5. r.frames # <<>> /\ Top(r) = f /\ Kept(q, r) /\ Kinds(r) = Kinds(q)
    BY <1>0, <1>2, <2>3, <2>4, TopSet
  <2>6. Kinds(q) # <<>>
    BY <1>0, <1>2, KindsType
  <2>7. Fitting(f)
    BY <2>4 DEF Fitting
  <2>8. r.lex = "none" /\ r.started /\ ~r.finished /\ r.validate = q.validate /\ r.code = q.code
    BY <1>0, <2>5 DEF Kept
  <2>9. Flags(r)
    BY <2>5, <2>7, <2>8, FlagsBetween
  <2>10. Place(r) = "after"
    BY <2>4, <2>5 DEF Place, Expects
  <2> QED
    BY <1>0, <2>4, <2>5, <2>6, <2>8, <2>9, <2>10 DEF Settled, After, r
<1> QED
  BY <1>1, <1>2

\* The parser with one mark, one count or no comma more is still inside.
LEMMA MarkSeenFacts ==
  ASSUME NEW q, Inside(q)
  PROVE  /\ Inside(MarkSeen(q)) /\ Kinds(MarkSeen(q)) = Kinds(q)
         /\ MarkSeen(q).validate = q.validate /\ MarkSeen(q).token = q.token
<1> DEFINE f == [Top(q) EXCEPT !.seen = Top(q).seen \cup Top(q).field]
<1>1. q \in Parser /\ Top(q) \in Frame
  BY TopType DEF Inside, Between, Sound
<1>2. f \in Frame /\ f.kind = Top(q).kind
  BY <1>1 DEF Frame, Fields
<1>3. MarkSeen(q) = SetTop(q, f)
  BY DEF MarkSeen
<1> HIDE DEF f
<1>4. /\ SetTop(q, f).frames # <<>> /\ Kept(q, SetTop(q, f))
      /\ Kinds(SetTop(q, f)) = Kinds(q)
  BY <1>1, <1>2, TopSet DEF Inside
<1>5. Between(MarkSeen(q))
  BY MarkSeenSound DEF Inside
<1> QED
  BY <1>3, <1>4, <1>5 DEF Inside, Kept, Ok

LEMMA CountFacts ==
  ASSUME NEW q, Inside(q), NEW n \in 0..ArrayCapacity
  PROVE  LET r == [q EXCEPT !.count = n] IN
         Inside(r) /\ Kinds(r) = Kinds(q) /\ r.validate = q.validate
<1> DEFINE r == [q EXCEPT !.count = n]
<1>1. q \in Parser
  BY DEF Inside, Between, Sound
<1>2. Between(r)
  BY CountSound DEF Inside
<1>3. /\ r.frames = q.frames /\ r.started = q.started /\ r.finished = q.finished
      /\ r.code = q.code /\ r.validate = q.validate
  BY <1>1 DEF Parser
<1> HIDE DEF r
<1>4. Inside(r)
  BY <1>2, <1>3 DEF Inside, Ok
<1>5. Kinds(r) = Kinds(q)
  BY <1>3 DEF Kinds
<1> QED
  BY <1>3, <1>4, <1>5 DEF r

LEMMA NoCommaFacts ==
  ASSUME NEW q, Inside(q)
  PROVE  LET r == SetTop(q, [Top(q) EXCEPT !.comma = FALSE]) IN
         Inside(r) /\ Kinds(r) = Kinds(q) /\ r.validate = q.validate
<1> DEFINE f == [Top(q) EXCEPT !.comma = FALSE]
<1>1. q \in Parser /\ Top(q) \in Frame
  BY TopType DEF Inside, Between, Sound
<1>2. f \in Frame /\ f.kind = Top(q).kind
  BY <1>1 DEF Frame
<1> HIDE DEF f
<1>4. /\ SetTop(q, f).frames # <<>> /\ Kept(q, SetTop(q, f))
      /\ Kinds(SetTop(q, f)) = Kinds(q)
  BY <1>1, <1>2, TopSet DEF Inside
<1>5. Between(SetTop(q, f))
  BY NoCommaSound DEF Inside, f
<1>6. Inside(SetTop(q, f))
  BY <1>4, <1>5 DEF Inside, Kept, Ok
<1> QED
  BY <1>4, <1>6 DEF Kept, f

LEMMA InsideCompletes ==
  ASSUME NEW q \in Parser, NEW r, Inside(r), r.validate = q.validate
  PROVE  Completes(q, CompleteParent(r), Kinds(r))
  BY CompleteParentFacts DEF Inside, Completes, Ok

LEMMA ScalarForFieldFacts ==
  ASSUME NEW q, Inside(q), NEW mode
  PROVE  /\ Completes(q, ScalarForField(q, mode), Kinds(q))
         /\ Ok(ScalarForField(q, mode)) /\ mode = "number" /\ KindOf(Top(q).field) = "i64" =>
              ParsesAsI64(q.token)
<1> DEFINE e == [MarkSeen(q) EXCEPT !.count = 0]
           r == ScalarForField(q, mode)
<1>0. q \in Parser
  BY DEF Inside, Between, Sound
<1>1. /\ Inside(MarkSeen(q)) /\ Kinds(MarkSeen(q)) = Kinds(q)
      /\ MarkSeen(q).validate = q.validate
  BY MarkSeenFacts
<1>2. Inside(e) /\ Kinds(e) = Kinds(q) /\ e.validate = q.validate
  BY <1>1, CountFacts, ZeroInCapacity
<1> HIDE DEF e
<1>3. /\ Completes(q, CompleteParent(q), Kinds(q))
      /\ Completes(q, CompleteParent(MarkSeen(q)), Kinds(q))
      /\ Completes(q, CompleteParent(e), Kinds(q))
  <2>1. Completes(q, CompleteParent(q), Kinds(q))
    BY <1>0, InsideCompletes
  <2>2. Completes(q, CompleteParent(MarkSeen(q)), Kinds(q))
    <3>1. Completes(q, CompleteParent(MarkSeen(q)), Kinds(MarkSeen(q)))
      BY <1>0, <1>1, InsideCompletes
    <3> QED
      BY <1>1, <3>1
  <2>3. Completes(q, CompleteParent(e), Kinds(q))
    <3>1. Completes(q, CompleteParent(e), Kinds(e))
      BY <1>0, <1>2, InsideCompletes
    <3> QED
      BY <1>2, <3>1
  <2> QED
    BY <2>1, <2>2, <2>3
<1>4. MarkSeen(q) \in Parser
  BY <1>1 DEF Inside, Between, Sound
<1>5. /\ Completes(q, Fail(q, "DUPLICATE_FIELD"), Kinds(q))
      /\ Completes(q, Fail(MarkSeen(q), "TYPE_MISMATCH"), Kinds(q))
      /\ ~Ok(Fail(q, "DUPLICATE_FIELD")) /\ ~Ok(Fail(MarkSeen(q), "TYPE_MISMATCH"))
  BY <1>0, <1>1, <1>4, FailCompletes, FailFacts
<1> DEFINE kind == KindOf(Top(q).field)
<1>6. r = CASE kind = "none" -> CompleteParent(q)
            [] kind # "none" /\ Duplicate(q) -> Fail(q, "DUPLICATE_FIELD")
            [] kind = "i64" /\ mode = "number" /\ ParsesAsI64(q.token) /\ ~Duplicate(q) ->
                 CompleteParent(MarkSeen(q))
            [] kind = "i64_array" /\ mode = "null" /\ ~Duplicate(q) -> CompleteParent(e)
            [] OTHER -> Fail(MarkSeen(q), "TYPE_MISMATCH")
  BY DEF ScalarForField, e
<1> HIDE DEF r, kind
<1>7. \/ r = CompleteParent(q) /\ kind = "none"
      \/ r = Fail(q, "DUPLICATE_FIELD")
      \/ r = CompleteParent(MarkSeen(q)) /\ ParsesAsI64(q.token)
      \/ r = CompleteParent(e) /\ mode = "null"
      \/ r = Fail(MarkSeen(q), "TYPE_MISMATCH")
  BY <1>6
<1>8. Completes(q, r, Kinds(q)) /\ (Ok(r) /\ mode = "number" /\ kind = "i64" => ParsesAsI64(q.token))
  BY <1>3, <1>5, <1>7
<1> QED
  BY <1>8 DEF r, kind

LEMMA ScalarForArrayFacts ==
  ASSUME NEW q, Inside(q), NEW mode
  PROVE  /\ Completes(q, ScalarForArray(q, mode), Kinds(q))
         /\ Ok(ScalarForArray(q, mode)) => ParsesAsI64(q.token)
<1> DEFINE f == [Top(q) EXCEPT !.state = "comma"]
           next == SetTop(q, f)
           r == ScalarForArray(q, mode)
           a == [next EXCEPT !.count = @ + 1]
           t == [next EXCEPT !.truncated = TRUE]
<1>1. q \in Parser /\ Top(q) \in Frame
  BY TopType DEF Inside, Between, Sound
<1>2. f \in Frame /\ f.kind = Top(q).kind /\ f.state = "comma"
  BY <1>1 DEF Frame
<1> HIDE DEF f
<1>3. /\ next \in Parser /\ next.frames # <<>> /\ Top(next) = f /\ Kept(q, next)
      /\ Kinds(next) = Kinds(q)
  BY <1>1, <1>2, TopSet DEF Inside
<1> HIDE DEF next
<1>4. \/ r = Fail(q, "TYPE_MISMATCH") \/ r = Fail(q, "OVERFLOW")
      \/ (r = a \/ r = t) /\ ParsesAsI64(q.token)
  BY DEF ScalarForArray, next, f, r, a, t
<1>5. r \in Parser
  BY ScalarForArraySound DEF Inside, Between, Sound
<1> HIDE DEF r
<1>6. CASE r = Fail(q, "TYPE_MISMATCH") \/ r = Fail(q, "OVERFLOW")
  BY <1>1, <1>6, FailCompletes, FailFacts DEF r
<1>7. CASE (r = a \/ r = t) /\ ParsesAsI64(q.token)
  <2>1. /\ r.frames = next.frames /\ r.started = next.started /\ r.finished = next.finished
        /\ r.validate = next.validate /\ r.code = next.code /\ r.lex = next.lex
    BY <1>3, <1>7 DEF Parser
  <2>2. /\ r.validate = q.validate /\ r.code = q.code /\ r.lex = "none" /\ r.started /\ ~r.finished
    BY <1>3, <2>1 DEF Kept, Inside, Between
  <2>3. r.frames # <<>> /\ Top(r) = f /\ Kinds(r) = Kinds(q)
    BY <1>3, <2>1 DEF Top, Kinds
  <2>4. Fitting(f)
    BY <1>2 DEF Fitting
  <2>5. Flags(r)
    BY <2>2, <2>3, <2>4, FlagsBetween
  <2>6. Kinds(q) # <<>> /\ Place(r) = "after"
    BY <1>1, <1>2, <2>3, KindsType DEF Place, Expects, Inside
  <2>7. Settled(r, Kinds(q))
    BY <1>2, <1>5, <2>2, <2>3, <2>5, <2>6 DEF Settled, After
  <2>8. r.code # "INVALID_JSON"
    BY <2>2 DEF Inside, Ok
  <2>9. Completes(q, r, Kinds(q))
    BY <2>2, <2>7, <2>8 DEF Completes
  <2> QED
    BY <1>7, <2>9 DEF r
<1> QED
  BY <1>4, <1>6, <1>7

\* The value of a token: q waits for one, where Flags says.
Waiting(q) ==
  /\ Between(q) /\ Ok(q) /\ ~q.isKey /\ ~q.finished
  /\ q.frames = <<>> => q.validate /\ ~q.started
  /\ q.frames # <<>> => q.started

LEMMA DeliverValueFacts ==
  ASSUME NEW q, Waiting(q), NEW mode
  PROVE  LET r == DeliverToken(q, mode) IN
         /\ r.validate = q.validate
         /\ Ok(r) => Settled(r, Kinds(q))
         /\ mode # "number" => r.code # "INVALID_JSON"
         /\ mode = "number" /\ Ok(r) => IsValidJsonNumber(q.token) \/ ParsesAsI64(q.token)
         /\ r.code = "INVALID_JSON" => ~IsValidJsonNumber(q.token)
<1> DEFINE r == DeliverToken(q, mode)
           bad == mode = "number" /\ ~IsValidJsonNumber(q.token)
<1>0. q \in Parser /\ q.lex = "none" /\ ~q.isKey
  BY DEF Waiting, Between, Sound
<1>1. CASE q.frames = <<>>
  <2> DEFINE d == [q EXCEPT !.started = TRUE, !.finished = TRUE]
  <2>1. r = IF bad THEN Fail(q, "INVALID_JSON") ELSE d
    BY <1>0, <1>1 DEF DeliverToken, Waiting
  <2>2. /\ d \in Parser /\ d.frames = <<>> /\ d.started /\ d.finished /\ d.lex = "none"
        /\ d.validate = q.validate /\ d.code = q.code
    BY <1>0, <1>1 DEF Parser
  <2> HIDE DEF d
  <2>3. Kinds(q) = <<>> /\ Kinds(d) = <<>>
    BY <1>0, <1>1, <2>2, KindsType
  <2>4. Flags(d) /\ Place(d) = "done"
    BY <2>2, FlagsBetween DEF Place
  <2>5. Settled(d, Kinds(q))
    BY <2>2, <2>3, <2>4 DEF Settled, After
  <2>6. d.code # "INVALID_JSON"
    BY <2>2 DEF Waiting, Ok
  <2> HIDE DEF r
  <2>7. CASE bad
    <3>1. r.validate = q.validate /\ ~Ok(r)
      BY <1>0, <2>1, <2>7, FailFacts
    <3> QED
      BY <2>7, <3>1 DEF r
  <2>8. CASE ~bad
    BY <2>1, <2>2, <2>5, <2>6, <2>8 DEF r
  <2> QED
    BY <2>7, <2>8
<1>2. CASE q.frames # <<>>
  <2> DEFINE f == [Top(q) EXCEPT !.comma = FALSE, !.state = "comma"]
             s == SetTop(q, f)
  <2>0. Inside(q)
    BY <1>2 DEF Waiting, Inside
  <2>1. r = IF bad /\ (q.validate \/ ~MappedNumericTarget(q)) THEN Fail(q, "INVALID_JSON")
            ELSE IF Top(q).kind = "object" THEN ScalarForField(q, mode)
            ELSE IF Top(q).field = {} THEN s
            ELSE ScalarForArray(q, mode)
    BY <1>0, <1>2 DEF DeliverToken
  <2>2. Top(q) \in Frame
    BY <1>0, <1>2, TopType
  <2>3. f \in Frame /\ f.kind = Top(q).kind /\ f.state = "comma"
    BY <2>2 DEF Frame
  <2> HIDE DEF f
  <2>4. s \in Parser /\ s.frames # <<>> /\ Top(s) = f /\ Kept(q, s) /\ Kinds(s) = Kinds(q)
    BY <1>0, <1>2, <2>3, TopSet
  <2> HIDE DEF s
  <2>5. Completes(q, s, Kinds(q))
    <3>1. /\ s.validate = q.validate /\ s.code = q.code /\ s.lex = "none" /\ s.started
          /\ ~s.finished
      BY <2>0, <2>4 DEF Kept, Inside, Between
    <3>2. Flags(s)
      BY <2>3, <2>4, <3>1, FlagsBetween DEF Fitting
    <3>3. Kinds(q) # <<>> /\ Place(s) = "after"
      BY <1>0, <1>2, <2>3, <2>4, KindsType DEF Place, Expects
    <3>4. Settled(s, Kinds(q))
      BY <2>3, <2>4, <3>1, <3>2, <3>3 DEF Settled, After
    <3> QED
      BY <2>0, <3>1, <3>4 DEF Completes, Inside, Ok
  <2> HIDE DEF r
  <2>6. CASE bad /\ (q.validate \/ ~MappedNumericTarget(q))
    <3>1. r.validate = q.validate /\ ~Ok(r)
      BY <1>0, <2>1, <2>6, FailFacts
    <3> QED
      BY <2>6, <3>1 DEF r
  <2>7. CASE ~(bad /\ (q.validate \/ ~MappedNumericTarget(q)))
    <3>1. CASE Top(q).kind = "object"
      <4>1. r = ScalarForField(q, mode)
        BY <2>1, <2>7, <3>1
      <4>2. Completes(q, r, Kinds(q))
        BY <2>0, <4>1, ScalarForFieldFacts
      <4>3. mode = "number" /\ Ok(r) => IsValidJsonNumber(q.token) \/ ParsesAsI64(q.token)
        <5>1. mode = "number" /\ ~IsValidJsonNumber(q.token) => KindOf(Top(q).field) = "i64"
          BY <2>7, <3>1 DEF MappedNumericTarget
        <5>2. Ok(r) /\ mode = "number" /\ KindOf(Top(q).field) = "i64" => ParsesAsI64(q.token)
          BY <2>0, <4>1, ScalarForFieldFacts
        <5> QED
          BY <5>1, <5>2
      <4> QED
        BY <4>2, <4>3 DEF Completes, r
    <3>2. CASE Top(q).kind # "object" /\ Top(q).field = {}
      <4>1. r = s
        BY <2>1, <2>7, <3>2
      <4>2. KindOf(Top(q).field) = "none"
        BY <3>2 DEF KindOf
      <4>3. ~MappedNumericTarget(q)
        BY <3>2, <4>2 DEF MappedNumericTarget
      <4> QED
        BY <2>5, <2>7, <4>1, <4>3 DEF Completes, r
    <3>3. CASE Top(q).kind # "object" /\ Top(q).field # {}
      <4>1. r = ScalarForArray(q, mode)
        BY <2>1, <2>7, <3>3
      <4>2. Completes(q, r, Kinds(q)) /\ (Ok(r) => ParsesAsI64(q.token))
        BY <2>0, <4>1, ScalarForArrayFacts
      <4> QED
        BY <4>2 DEF Completes, r
    <3> QED
      BY <3>1, <3>2, <3>3
  <2> QED
    BY <2>6, <2>7
<1> QED
  BY <1>1, <1>2

\* r: a parser that has opened a container in q, or failed.
Opens(q, r, kind) ==
  /\ r.validate = q.validate /\ r.code # "INVALID_JSON"
  /\ Ok(r) => /\ r \in Parser /\ r.lex = "none" /\ Flags(r) /\ r.frames # <<>>
              /\ Kinds(r) = Append(Kinds(q), kind)
              /\ Place(r) = (IF kind = "object" THEN "firstKey" ELSE "firstItem")
              /\ Top(r).state \notin {"colon", "value"}

LEMMA PushFacts ==
  ASSUME NEW q, Between(q), Ok(q), q.started, ~q.finished, NEW kind \in {"object", "array"},
         NEW map \in BOOLEAN, NEW field \in Fields
  PROVE  Opens(q, PushFrame(q, kind, map, field), kind)
<1> DEFINE full == \/ MaxDepth # 0 /\ Len(q.frames) >= MaxDepth
                   \/ (Len(q.frames) + 1) * FrameBytes > WorkspaceSize
           f == [kind |-> kind, state |-> IF kind = "object" THEN "key" ELSE "item",
                 comma |-> FALSE, map |-> map, field |-> field, seen |-> {}]
           d == [q EXCEPT !.frames = Append(q.frames, f)]
           r == PushFrame(q, kind, map, field)
<1>0. q \in Parser /\ q.lex = "none"
  BY DEF Between, Sound
<1>1. r = IF full THEN Fail(q, "OVERFLOW") ELSE d
  BY DEF PushFrame
<1>2. f \in Frame /\ f.kind = kind /\ Fitting(f) /\ f.state \notin {"colon", "value"}
      /\ Expects(f) = (IF kind = "object" THEN "firstKey" ELSE "firstItem")
  BY DEF Frame, Fields, Fitting, Expects
<1> HIDE DEF f, full
<1>3. /\ d \in Parser /\ d.frames # <<>> /\ Top(d) = f /\ Kept(q, d)
      /\ Kinds(d) = Append(Kinds(q), f.kind)
  BY <1>0, <1>2, Pushed
<1> HIDE DEF d
<1>4. /\ d.lex = "none" /\ d.started /\ ~d.finished /\ d.validate = q.validate /\ d.code = "OK"
  BY <1>0, <1>3 DEF Kept, Ok
<1>5. Flags(d)
  BY <1>2, <1>3, <1>4, FlagsBetween
<1>6. Place(d) = Expects(f)
  BY <1>3 DEF Place
<1> HIDE DEF r
<1>7. CASE full
  <2>1. r.validate = q.validate /\ r.code = "OVERFLOW" /\ ~Ok(r)
    BY <1>0, <1>1, <1>7, FailFacts
  <2> QED
    BY <2>1 DEF Opens, r
<1>8. CASE ~full
  <2>1. r = d
    BY <1>1, <1>8
  <2> QED
    BY <1>2, <1>3, <1>4, <1>5, <1>6, <2>1 DEF Opens, r
<1> QED
  BY <1>7, <1>8

LEMMA FailOpens ==
  ASSUME NEW q \in Parser, NEW r \in Parser, r.validate = q.validate, NEW kind,
         NEW code, code \notin {"OK", "INVALID_JSON"}
  PROVE  Opens(q, Fail(r, code), kind)
  BY FailFacts DEF Opens

\* A value may begin.
Ready(q) == Between(q) /\ Ok(q) /\ ~q.finished /\ (q.started <=> q.frames # <<>>)

LEMMA StartedFacts ==
  ASSUME NEW q, Ready(q)
  PROVE  LET b == [q EXCEPT !.started = TRUE] IN
         /\ Between(b) /\ Ok(b) /\ b.started /\ ~b.finished /\ b.validate = q.validate
         /\ Kinds(b) = Kinds(q)
<1> DEFINE b == [q EXCEPT !.started = TRUE]
<1>1. q \in Parser
  BY DEF Ready, Between, Sound
<1>2. Between(b)
  BY StartedSound DEF Ready
<1>3. /\ b.frames = q.frames /\ b.started /\ b.finished = q.finished /\ b.code = q.code
      /\ b.validate = q.validate
  BY <1>1 DEF Parser
<1> HIDE DEF b
<1> QED
  BY <1>2, <1>3 DEF Ready, Ok, Kinds, b

\* Opening from a parser that sees the same containers.
LEMMA OpensFrom ==
  ASSUME NEW q, NEW d, d.validate = q.validate, Kinds(d) = Kinds(q), NEW r, NEW kind,
         Opens(d, r, kind)
  PROVE  Opens(q, r, kind)
  BY DEF Opens

LEMMA InsideReady ==
  ASSUME NEW q, Ready(q), q.started
  PROVE  Inside(q)
  BY DEF Ready, Inside

LEMMA BeginObjectFacts ==
  ASSUME NEW q, Ready(q)
  PROVE  Opens(q, BeginObject(q), "object")
<1> DEFINE r == SetTop(q, [Top(q) EXCEPT !.comma = FALSE])
           b == [q EXCEPT !.started = TRUE]
<1>0. q \in Parser /\ {} \in Fields /\ (~q.validate) \in BOOLEAN
  BY DEF Ready, Between, Sound, Fields
<1>1. CASE ~q.started
  <2>1. BeginObject(q) = PushFrame(b, "object", ~q.validate, {})
    BY <1>1 DEF BeginObject
  <2>2. Between(b) /\ Ok(b) /\ b.started /\ ~b.finished /\ b.validate = q.validate
        /\ Kinds(b) = Kinds(q)
    BY StartedFacts
  <2> HIDE DEF b
  <2>3. Opens(b, PushFrame(b, "object", ~q.validate, {}), "object")
    BY <1>0, <2>2, PushFacts
  <2> QED
    BY <2>1, <2>2, <2>3, OpensFrom
<1>2. CASE q.started
  <2>1. \/ BeginObject(q) = PushFrame(r, "object", FALSE, {})
        \/ BeginObject(q) = Fail(r, "DUPLICATE_FIELD")
        \/ BeginObject(q) = Fail(r, "TYPE_MISMATCH")
    BY <1>2 DEF BeginObject
  <2>2. Inside(r) /\ Kinds(r) = Kinds(q) /\ r.validate = q.validate
    BY <1>2, InsideReady, NoCommaFacts
  <2> HIDE DEF r
  <2>3. r \in Parser
    BY <2>2 DEF Inside, Between, Sound
  <2>4. Opens(r, PushFrame(r, "object", FALSE, {}), "object")
    BY <1>0, <2>2, PushFacts DEF Inside
  <2>5. Opens(q, PushFrame(r, "object", FALSE, {}), "object")
    BY <2>2, <2>4, OpensFrom
  <2>6. Opens(q, Fail(r, "DUPLICATE_FIELD"), "object") /\ Opens(q, Fail(r, "TYPE_MISMATCH"), "object")
    BY <1>0, <2>2, <2>3, FailOpens
  <2> QED
    BY <2>1, <2>5, <2>6
<1> QED
  BY <1>1, <1>2

LEMMA BeginArrayFacts ==
  ASSUME NEW q, Ready(q)
  PROVE  Opens(q, BeginArray(q), "array")
<1> DEFINE r == SetTop(q, [Top(q) EXCEPT !.comma = FALSE])
           b == [q EXCEPT !.started = TRUE]
           e == [MarkSeen(r) EXCEPT !.count = 0]
<1>0. q \in Parser /\ {} \in Fields
  BY DEF Ready, Between, Sound, Fields
<1>1. CASE ~q.started
  <2>1. \/ BeginArray(q) = PushFrame(b, "array", FALSE, {})
        \/ BeginArray(q) = Fail(q, "TYPE_MISMATCH")
    BY <1>1 DEF BeginArray
  <2>2. Between(b) /\ Ok(b) /\ b.started /\ ~b.finished /\ b.validate = q.validate
        /\ Kinds(b) = Kinds(q)
    BY StartedFacts
  <2> HIDE DEF b
  <2>3. Opens(b, PushFrame(b, "array", FALSE, {}), "array")
    BY <1>0, <2>2, PushFacts
  <2>4. Opens(q, Fail(q, "TYPE_MISMATCH"), "array")
    BY <1>0, FailOpens
  <2> QED
    BY <2>1, <2>2, <2>3, <2>4, OpensFrom
<1>2. CASE q.started
  <2>1. \/ BeginArray(q) = PushFrame(r, "array", FALSE, {})
        \/ BeginArray(q) = Fail(r, "DUPLICATE_FIELD")
        \/ BeginArray(q) = PushFrame(e, "array", FALSE, Top(q).field)
        \/ BeginArray(q) = Fail(r, "TYPE_MISMATCH")
    <3>1. CASE Top(q).field = {}
      <4>1. KindOf(Top(q).field) # "i64_array"
        BY <3>1 DEF KindOf
      <4> QED
        BY <1>2, <3>1, <4>1 DEF BeginArray
    <3>2. CASE Top(q).field # {}
      BY <1>2, <3>2 DEF BeginArray
    <3> QED
      BY <3>1, <3>2
  <2>2. Inside(r) /\ Kinds(r) = Kinds(q) /\ r.validate = q.validate
    BY <1>2, InsideReady, NoCommaFacts
  <2> HIDE DEF r
  <2>3. r \in Parser
    BY <2>2 DEF Inside, Between, Sound
  <2>4. /\ Inside(MarkSeen(r)) /\ Kinds(MarkSeen(r)) = Kinds(q)
        /\ MarkSeen(r).validate = q.validate
    BY <2>2, MarkSeenFacts
  <2>5. Inside(e) /\ Kinds(e) = Kinds(q) /\ e.validate = q.validate
    BY <2>4, CountFacts, ZeroInCapacity
  <2> HIDE DEF e
  <2>6. Top(q).field \in Fields
    BY <1>0, <1>2, TopType DEF Ready, Frame
  <2>7. /\ Opens(r, PushFrame(r, "array", FALSE, {}), "array")
        /\ Opens(e, PushFrame(e, "array", FALSE, Top(q).field), "array")
    BY <1>0, <2>2, <2>5, <2>6, PushFacts DEF Inside
  <2>8. /\ Opens(q, PushFrame(r, "array", FALSE, {}), "array")
        /\ Opens(q, PushFrame(e, "array", FALSE, Top(q).field), "array")
    BY <2>2, <2>5, <2>7, OpensFrom
  <2>9. Opens(q, Fail(r, "DUPLICATE_FIELD"), "array") /\ Opens(q, Fail(r, "TYPE_MISMATCH"), "array")
    BY <1>0, <2>2, <2>3, FailOpens
  <2> QED
    BY <2>1, <2>8, <2>9
<1> QED
  BY <1>1, <1>2

\* A container ends.
LEMMA FinalizeFacts ==
  ASSUME NEW q, Inside(q)
  PROVE  /\ Completes(q, FinalizeObject(q), Front(Kinds(q)))
         /\ Completes(q, FinalizeArray(q), Front(Kinds(q)))
<1> DEFINE d == PopFrame(q)
<1>1. q \in Parser
  BY DEF Inside, Between, Sound
<1>2. Between(d)
  BY PopFrameSound DEF Inside
<1>3. Kept(q, d) /\ Kinds(d) = Front(Kinds(q))
  BY <1>1, Popped DEF Inside
<1>4. FinalizeArray(q) = CompleteParent(d)
  BY DEF FinalizeArray
<1>5. FinalizeObject(q) = CompleteParent(d) \/ FinalizeObject(q) = Fail(q, "MISSING_REQUIRED_FIELD")
  BY DEF FinalizeObject
<1> HIDE DEF d
<1>6. d.started /\ ~d.finished /\ d.validate = q.validate /\ d.code = "OK"
  BY <1>3 DEF Kept, Inside, Ok
<1>7. Completes(q, CompleteParent(d), Front(Kinds(q)))
  BY <1>2, <1>3, <1>6, CompleteParentFacts DEF Completes
<1>8. Completes(q, Fail(q, "MISSING_REQUIRED_FIELD"), Front(Kinds(q)))
  BY <1>1, FailCompletes
<1> QED
  BY <1>4, <1>5, <1>7, <1>8

\* The top frame moves to another state.
Moves(q, r, state, comma) ==
  /\ r \in Parser /\ r.frames # <<>> /\ r.lex = "none" /\ r.started /\ ~r.finished
  /\ r.validate = q.validate /\ Ok(r) /\ Kinds(r) = Kinds(q)
  /\ Top(r).state = state /\ Top(r).comma = comma /\ Top(r).kind = Top(q).kind
  /\ Top(r).map = Top(q).map

LEMMA StateFacts ==
  ASSUME NEW q, Inside(q),
         NEW state \in {"key", "colon", "value", "comma", "item"}, NEW comma \in BOOLEAN
  PROVE  /\ LET r == SetTop(q, [Top(q) EXCEPT !.state = state]) IN
            Moves(q, r, state, Top(q).comma) /\ Top(r).field = Top(q).field
         /\ Moves(q, SetTop(q, [Top(q) EXCEPT !.state = state, !.comma = comma]), state, comma)
<1> DEFINE f == [Top(q) EXCEPT !.state = state]
           h == [Top(q) EXCEPT !.state = state, !.comma = comma]
<1>1. q \in Parser /\ Top(q) \in Frame
  BY TopType DEF Inside, Between, Sound
<1>2. /\ f \in Frame /\ f.kind = Top(q).kind /\ f.state = state /\ f.comma = Top(q).comma
      /\ f.map = Top(q).map /\ f.field = Top(q).field
  BY <1>1 DEF Frame
<1>3. /\ h \in Frame /\ h.kind = Top(q).kind /\ h.state = state /\ h.comma = comma
      /\ h.map = Top(q).map
  BY <1>1 DEF Frame
<1> HIDE DEF f, h
<1>4. /\ SetTop(q, f) \in Parser /\ SetTop(q, f).frames # <<>> /\ Top(SetTop(q, f)) = f
      /\ Kept(q, SetTop(q, f)) /\ Kinds(SetTop(q, f)) = Kinds(q)
  BY <1>1, <1>2, TopSet DEF Inside
<1>5. /\ SetTop(q, h) \in Parser /\ SetTop(q, h).frames # <<>> /\ Top(SetTop(q, h)) = h
      /\ Kept(q, SetTop(q, h)) /\ Kinds(SetTop(q, h)) = Kinds(q)
  BY <1>1, <1>3, TopSet DEF Inside
<1>6. Moves(q, SetTop(q, f), state, Top(q).comma) /\ Top(SetTop(q, f)).field = Top(q).field
  BY <1>2, <1>4 DEF Moves, Kept, Inside, Between, Ok
<1>7. Moves(q, SetTop(q, h), state, comma)
  BY <1>3, <1>5 DEF Moves, Kept, Inside, Between, Ok
<1> QED
  BY <1>6, <1>7 DEF f, h

\* A key ends.
LEMMA DeliverKeyFacts ==
  ASSUME NEW q, Inside(q), NEW text
  PROVE  LET r == DeliverKey(q, text) IN
         /\ Moves(q, r, "colon", Top(q).comma)
         /\ Top(r).map => Top(r).field = FieldOf(text)
<1> DEFINE field == IF Top(q).map /\ text \in DOMAIN FieldKind THEN {text} ELSE {}
           f == [Top(q) EXCEPT !.state = "colon", !.field = field]
<1>1. q \in Parser /\ Top(q) \in Frame
  BY TopType DEF Inside, Between, Sound
<1>2. field \in Fields
  BY DEF Fields
<1>3. DeliverKey(q, text) = SetTop(q, f)
  BY DEF DeliverKey
<1>7. Top(q).map => field = FieldOf(text)
  BY DEF FieldOf
<1> HIDE DEF field
<1>4. /\ f \in Frame /\ f.kind = Top(q).kind /\ f.state = "colon" /\ f.comma = Top(q).comma
      /\ f.map = Top(q).map /\ f.field = field
  BY <1>1, <1>2 DEF Frame
<1> HIDE DEF f
<1>5. /\ SetTop(q, f) \in Parser /\ SetTop(q, f).frames # <<>> /\ Top(SetTop(q, f)) = f
      /\ Kept(q, SetTop(q, f)) /\ Kinds(SetTop(q, f)) = Kinds(q)
  BY <1>1, <1>4, TopSet DEF Inside
<1>6. Moves(q, SetTop(q, f), "colon", Top(q).comma)
  BY <1>4, <1>5 DEF Moves, Kept, Inside, Between, Ok
<1> QED
  BY <1>3, <1>4, <1>5, <1>6, <1>7

-----------------------------------------------------------------------------
(***************************************************************************)
(* Tokens that begin, and bytes between tokens.                            *)
(***************************************************************************)

\* The parser and the automaton agree.
Agrees(r, h) == /\ h \in Automaton /\ h.spell = ~r.validate
                /\ Ok(r) => Follows(r, h)
                /\ Refused(r, h)

\* The parser refuses what the automaton refuses; or for a reason of its own.
LEMMA FailAgrees ==
  ASSUME NEW q \in Parser, NEW h \in Automaton, h.spell = ~q.validate, NEW code, code # "OK",
         code # "INVALID_JSON" \/ h.ctl = "dead" \/ ~h.paired
  PROVE  Agrees(Fail(q, code), h)
  BY FailFacts DEF Agrees, Refused

LEMMA FailedAgrees ==
  ASSUME NEW r, NEW h \in Automaton, h.spell = ~r.validate, ~Ok(r), r.code # "INVALID_JSON"
  PROVE  Agrees(r, h)
  BY DEF Agrees, Refused

\* What a token that begins in q leaves alone.
Begun(q, r) == /\ r.validate = q.validate /\ r.frames = q.frames
               /\ r.started = q.started /\ r.finished = q.finished

LEMMA PrepareFacts ==
  ASSUME NEW q \in Parser, q.code = "OK"
  PROVE  LET r == PrepareToken(q) IN
         /\ r \in Parser /\ r.validate = q.validate /\ r.code # "INVALID_JSON"
         /\ Ok(r) => /\ Begun(q, r) /\ r.lex = q.lex /\ r.isKey = q.isKey
                     /\ r.escape = q.escape /\ r.need = q.need /\ r.high = q.high
                     /\ r.capture = q.capture /\ r.token = <<>>
<1> DEFINE e == [q EXCEPT !.token = <<>>]
<1>1. <<>> \in Seq(Marks) /\ "OVERFLOW" \in Codes
  BY DEF Codes
<1>2. /\ e \in Parser /\ Begun(q, e) /\ e.lex = q.lex /\ e.isKey = q.isKey /\ e.token = <<>>
      /\ e.escape = q.escape /\ e.need = q.need /\ e.high = q.high
      /\ e.capture = q.capture /\ e.code = q.code
  BY <1>1 DEF Parser, Begun
<1>3. PrepareToken(q) = e \/ PrepareToken(q) = Fail(e, "OVERFLOW")
  BY DEF PrepareToken
<1> HIDE DEF e
<1>4. Fail(e, "OVERFLOW") \in Parser
  BY <1>1, <1>2 DEF Fail, Parser
<1>5. ~Ok(Fail(e, "OVERFLOW")) /\ Fail(e, "OVERFLOW").code = "OVERFLOW"
      /\ Fail(e, "OVERFLOW").validate = e.validate
  BY <1>2, FailFacts
<1> QED
  BY <1>2, <1>3, <1>4, <1>5 DEF Begun

LEMMA BeginStringFacts ==
  ASSUME NEW q, Ready(q), NEW isKey \in BOOLEAN
  PROVE  LET r == BeginString(q, isKey) IN
         /\ r.validate = q.validate /\ r.code # "INVALID_JSON"
         /\ Ok(r) => /\ Begun(q, r) /\ r.lex = "string" /\ r.isKey = isKey
                     /\ ~r.escape /\ r.need = 0 /\ r.high = 0 /\ r.token = <<>>
                     /\ r.capture = (IF q.validate THEN "discard" ELSE "token")
<1> DEFINE capture == IF q.validate THEN "discard" ELSE "token"
           d == [q EXCEPT !.lex = "string", !.isKey = isKey, !.escape = FALSE,
                          !.high = 0, !.need = 0, !.capture = capture]
           e == [d EXCEPT !.token = <<>>]
           r == BeginString(q, isKey)
<1>1. q \in Parser /\ q.code = "OK"
  BY DEF Ready, Between, Sound, Ok
<1>2. /\ d \in Parser /\ d.code = "OK" /\ Begun(q, d) /\ d.lex = "string" /\ d.isKey = isKey
      /\ ~d.escape /\ d.need = 0 /\ d.high = 0 /\ d.capture = capture
  BY <1>1 DEF Parser, Modes, Begun
<1>3. r = IF q.validate THEN e ELSE PrepareToken(d)
  BY DEF BeginString
<1> HIDE DEF d, r
<1>4. <<>> \in Seq(Marks)
  OBVIOUS
<1>5. CASE q.validate
  <2>1. /\ Begun(q, e) /\ e.lex = "string" /\ e.isKey = isKey /\ ~e.escape /\ e.need = 0
        /\ e.high = 0 /\ e.capture = capture /\ e.token = <<>> /\ e.code = "OK"
    BY <1>2, <1>4 DEF Parser, Begun
  <2> HIDE DEF e
  <2> QED
    BY <1>3, <1>5, <2>1 DEF r, Begun
<1>6. CASE ~q.validate
  <2>1. r = PrepareToken(d)
    BY <1>3, <1>6
  <2>2. /\ r.validate = d.validate /\ r.code # "INVALID_JSON"
        /\ Ok(r) => /\ Begun(d, r) /\ r.lex = d.lex /\ r.isKey = d.isKey
                    /\ r.escape = d.escape /\ r.need = d.need /\ r.high = d.high
                    /\ r.capture = d.capture /\ r.token = <<>>
    BY <1>2, <2>1, PrepareFacts
  <2> QED
    BY <1>2, <2>2 DEF r, Begun
<1> QED
  BY <1>5, <1>6

LEMMA BeginScalarFacts ==
  ASSUME NEW q, Ready(q), NEW mode \in Modes, NEW c \in Marks
  PROVE  LET r == BeginScalar(q, mode, c) IN
         /\ r.validate = q.validate /\ r.code # "INVALID_JSON"
         /\ Ok(r) => Begun(q, r) /\ r.lex = mode /\ ~r.isKey /\ r.token = <<c>>
<1> DEFINE d == [q EXCEPT !.lex = mode, !.isKey = FALSE]
           e == PrepareToken(d)
           a == [e EXCEPT !.token = Append(@, c)]
           r == BeginScalar(q, mode, c)
<1>1. q \in Parser /\ q.code = "OK"
  BY DEF Ready, Between, Sound, Ok
<1>2. d \in Parser /\ d.code = "OK" /\ Begun(q, d) /\ d.lex = mode /\ ~d.isKey
  BY <1>1 DEF Parser, Begun
<1>3. r = IF Ok(e) THEN ScratchAppend(e, c) ELSE e
  BY DEF BeginScalar
<1> HIDE DEF d, r
<1>4. /\ e \in Parser /\ e.validate = d.validate /\ e.code # "INVALID_JSON"
      /\ Ok(e) => Begun(d, e) /\ e.lex = d.lex /\ e.isKey = d.isKey /\ e.token = <<>>
  BY <1>2, PrepareFacts
<1> HIDE DEF e
<1>5. CASE ~Ok(e)
  BY <1>2, <1>3, <1>4, <1>5 DEF Begun, r
<1>6. CASE Ok(e)
  <2>1. r = a \/ r = Fail(e, "ALLOCATION_FAILED")
    BY <1>3, <1>6 DEF ScratchAppend
  <2>2. /\ a.validate = e.validate /\ a.code = e.code /\ Begun(e, a) /\ a.lex = e.lex
        /\ a.isKey = e.isKey /\ a.token = Append(e.token, c)
    BY <1>4 DEF Parser, Begun
  <2> HIDE DEF a
  <2>3. Append(e.token, c) = <<c>>
    <3>1. Append(<<>>, c) = <<c>>
      OBVIOUS
    <3> QED
      BY <1>4, <1>6, <3>1
  <2>4. /\ Fail(e, "ALLOCATION_FAILED").validate = e.validate
        /\ ~Ok(Fail(e, "ALLOCATION_FAILED"))
        /\ Fail(e, "ALLOCATION_FAILED").code = "ALLOCATION_FAILED"
    BY <1>4, FailFacts
  <2> QED
    BY <1>2, <1>4, <1>6, <2>1, <2>2, <2>3, <2>4 DEF Begun, r
<1> QED
  BY <1>5, <1>6

\* Where a scalar may stand: in a container, or as the document of a
\* validating parser.
Open(q) == Ready(q) /\ (q.frames = <<>> => q.validate)

\* The automaton where the parser is, outside every token.
Beside(q, g) == /\ g \in Automaton /\ g.stack = Kinds(q) /\ g.spell = ~q.validate

LEMMA StringBegins ==
  ASSUME NEW q, Open(q), NEW isKey \in BOOLEAN, NEW h, Beside(q, h), h.ctl = "string",
         isKey => q.frames # <<>> /\ Top(q).kind = "object",
         h.key = isKey, ~h.high, isKey => h.text = <<>>
  PROVE  Agrees(BeginString(q, isKey), h)
<1> DEFINE r == BeginString(q, isKey)
<1>0. q \in Parser
  BY DEF Open, Ready, Between, Sound
<1>1. /\ r.validate = q.validate /\ r.code # "INVALID_JSON"
      /\ Ok(r) => /\ Begun(q, r) /\ r.lex = "string" /\ r.isKey = isKey
                  /\ ~r.escape /\ r.need = 0 /\ r.high = 0 /\ r.token = <<>>
                  /\ r.capture = (IF q.validate THEN "discard" ELSE "token")
  BY BeginStringFacts DEF Open
<1> HIDE DEF r
<1>2. CASE ~Ok(r)
  BY <1>1, <1>2, FailedAgrees DEF Beside, r
<1>3. CASE Ok(r)
  <2>1. r.frames = q.frames /\ r.started = q.started /\ r.finished = q.finished
        /\ r.validate = q.validate
    BY <1>1, <1>3 DEF Begun
  <2>2. Flags(r)
    BY <1>0, <1>1, <1>3, <2>1 DEF Flags, Open, Ready, Top, Parser
  <2>3. InText(r, h)
    BY <1>1, <1>3, <2>1 DEF InText, Spelling, SameSpelling, Beside
  <2>4. Kinds(r) = Kinds(q)
    BY <2>1 DEF Kinds
  <2>5. Follows(r, h)
    BY <1>1, <1>3, <2>1, <2>2, <2>3, <2>4 DEF Follows, Beside, Literals
  <2> QED
    BY <1>1, <1>3, <2>5 DEF Agrees, Refused, Beside, r
<1> QED
  BY <1>2, <1>3

LEMMA NumberBegins ==
  ASSUME NEW q, Open(q), NEW c \in Marks, c \in Digits \cup {"-"},
         NEW h, Beside(q, h), h.ctl = NumberHead(c)
  PROVE  Agrees(BeginScalar(q, "number", c), h)
<1> DEFINE r == BeginScalar(q, "number", c)
<1>0. q \in Parser /\ "number" \in Modes
  BY DEF Open, Ready, Between, Sound, Modes
<1>1. /\ r.validate = q.validate /\ r.code # "INVALID_JSON"
      /\ Ok(r) => Begun(q, r) /\ r.lex = "number" /\ ~r.isKey /\ r.token = <<c>>
  BY <1>0, BeginScalarFacts DEF Open
<1> HIDE DEF r
<1>2. CASE ~Ok(r)
  BY <1>1, <1>2, FailedAgrees DEF Beside, r
<1>3. CASE Ok(r)
  <2>1. r.frames = q.frames /\ r.started = q.started /\ r.finished = q.finished
        /\ r.validate = q.validate
    BY <1>1, <1>3 DEF Begun
  <2>2. Flags(r)
    BY <1>0, <1>1, <1>3, <2>1 DEF Flags, Open, Ready, Top, Parser
  <2>3. InNumber(r, h)
    <3>1. r.token = <<c>> /\ r.token # <<>> /\ r.token[1] = c /\ DOMAIN r.token = {1}
      BY <1>1, <1>3
    <3>2. c \in NumberBytes
      BY DEF NumberBytes
    <3> DEFINE s == GrammarStart(FALSE)
    <3>3. GrammarRun(s, <<c>>) = GrammarStep(s, c)
      BY RunOne
    <3>4. s \in Automaton /\ s.ctl = "root"
      BY StartFacts
    <3> HIDE DEF s
    <3>5. c \notin Spaces /\ "root" \in Places /\ s.ctl \in {"root", "value", "item"}
      BY <3>4 DEF Spaces, Digits, NonZero, Places
    <3>6. GrammarStep(s, c) = StartValue(s, c)
      BY <3>4, <3>5, PlaceStep DEF BetweenStep
    <3>7. StartValue(s, c).ctl = NumberHead(c)
      BY <3>4, NumberStartFacts
    <3>8. h.ctl = GrammarRun(GrammarStart(FALSE), r.token).ctl
      BY <3>1, <3>3, <3>6, <3>7 DEF s
    <3>9. r.token[1] \in Digits \cup {"-"} /\ \A i \in DOMAIN r.token : r.token[i] \in NumberBytes
      BY <3>1, <3>2
    <3> QED
      BY <3>1, <3>8, <3>9 DEF InNumber
  <2>4. Kinds(r) = Kinds(q)
    BY <2>1 DEF Kinds
  <2>5. Follows(r, h)
    BY <1>1, <1>3, <2>1, <2>2, <2>3, <2>4 DEF Follows, Beside, Literals
  <2> QED
    BY <1>1, <1>3, <2>5 DEF Agrees, Refused, Beside, r
<1> QED
  BY <1>2, <1>3

LEMMA LiteralBegins ==
  ASSUME NEW q, Open(q), NEW c \in Marks, LiteralOf(c) # {},
         NEW h, Beside(q, h), h.ctl = "literal",
         h.want = Tail(Literals[CHOOSE l \in LiteralOf(c) : TRUE])
  PROVE  Agrees(BeginScalar(q, CHOOSE l \in LiteralOf(c) : TRUE, c), h)
<1> DEFINE l == CHOOSE l \in LiteralOf(c) : TRUE
           r == BeginScalar(q, l, c)
<1>4. /\ l \in DOMAIN Literals /\ Literals[l] \in Seq(Letters)
      /\ Head(Literals[l]) = c /\ Len(Literals[l]) \in {4, 5}
  BY WordFacts
<1>0. q \in Parser
  BY DEF Open, Ready, Between, Sound
<1>5. h.want = Tail(Literals[l])
  OBVIOUS
<1> HIDE DEF l
<1>6. DOMAIN Literals = {"true", "false", "null"}
  BY DEF Literals
<1>7. l \in Modes /\ l \notin {"none", "string", "number"}
  BY <1>4, <1>6 DEF Modes
<1>1. /\ r.validate = q.validate /\ r.code # "INVALID_JSON"
      /\ Ok(r) => Begun(q, r) /\ r.lex = l /\ ~r.isKey /\ r.token = <<c>>
  BY <1>7, BeginScalarFacts DEF Open
<1> HIDE DEF r
<1>2. CASE ~Ok(r)
  BY <1>1, <1>2, FailedAgrees DEF Beside, r, l
<1>3. CASE Ok(r)
  <2>1. r.frames = q.frames /\ r.started = q.started /\ r.finished = q.finished
        /\ r.validate = q.validate
    BY <1>1, <1>3 DEF Begun
  <2>2. Flags(r)
    BY <1>0, <1>1, <1>3, <1>7, <2>1 DEF Flags, Open, Ready, Top, Parser
  <2>3. InLiteral(r, h)
    <3> DEFINE w == Literals[l]
    <3>1. w \in Seq(Letters) /\ Len(w) \in {4, 5} /\ h.want = Tail(w)
      BY <1>4, <1>5
    <3> HIDE DEF w
    <3>2. Tail(w) = SubSeq(w, 2, Len(w))
      BY <3>1
    <3>3. Len(r.token) = 1 /\ r.lex = l
      BY <1>1, <1>3
    <3>5. Len(r.token) + 1 = 2 /\ Len(r.token) < Len(w)
      <4> DEFINE m == Len(r.token)
                 n == Len(w)
      <4>1. m = 1 /\ (n = 4 \/ n = 5)
        BY <3>1, <3>3
      <4> HIDE DEF m, n
      <4>2. m + 1 = 2 /\ m < n
        BY <4>1
      <4> QED
        BY <4>2 DEF m, n
    <3>4. Len(r.token) < Len(w) /\ h.want = SubSeq(w, Len(r.token) + 1, Len(w))
      BY <3>1, <3>2, <3>5
    <3> QED
      BY <3>3, <3>4 DEF InLiteral, w
  <2>4. Kinds(r) = Kinds(q)
    BY <2>1 DEF Kinds
  <2>5. Follows(r, h)
    BY <1>1, <1>3, <1>4, <1>7, <2>1, <2>2, <2>3, <2>4 DEF Follows, Beside
  <2> QED
    BY <1>1, <1>3, <2>5 DEF Agrees, Refused, Beside, r, l
<1> QED
  BY <1>2, <1>3

LEMMA OpenAgrees ==
  ASSUME NEW q, NEW r, NEW kind \in {"object", "array"}, Opens(q, r, kind),
         NEW h \in Automaton, h.stack = Append(Kinds(q), kind), h.spell = ~q.validate,
         h.ctl = (IF kind = "object" THEN "firstKey" ELSE "firstItem")
  PROVE  Agrees(r, h)
<1>1. CASE ~Ok(r)
  BY <1>1, FailedAgrees DEF Opens
<1>2. CASE Ok(r)
  <2>1. /\ r.validate = q.validate /\ r.code # "INVALID_JSON" /\ r.lex = "none" /\ Flags(r)
        /\ r.frames # <<>> /\ Kinds(r) = h.stack /\ Place(r) = h.ctl
        /\ Top(r).state \notin {"colon", "value"}
    BY <1>2 DEF Opens
  <2>2. InNone(r, h)
    BY <2>1 DEF InNone
  <2>3. Follows(r, h)
    BY <2>1, <2>2 DEF Follows, Literals
  <2> QED
    BY <2>1, <2>3 DEF Agrees, Refused
<1> QED
  BY <1>1, <1>2

LEMMA SettledFollows ==
  ASSUME NEW r, NEW stack, Settled(r, stack), NEW h \in Automaton, h.stack = stack,
         h.spell = ~r.validate, h.ctl = After(stack) \/ h.ctl \in NumberEnds
  PROVE  Follows(r, h)
<1>1. /\ r.lex = "none" /\ Flags(r) /\ Kinds(r) = stack /\ Place(r) = After(stack)
      /\ r.frames # <<>> => Top(r).state = "comma"
  BY DEF Settled
<1>2. InNone(r, h)
  BY <1>1 DEF InNone, After
<1> QED
  BY <1>1, <1>2 DEF Follows, Literals

LEMMA CloseAgrees ==
  ASSUME NEW q, NEW r, NEW stack, Completes(q, r, stack), NEW h \in Automaton,
         h.stack = stack, h.spell = ~q.validate, h.ctl = After(stack)
  PROVE  Agrees(r, h)
<1>1. CASE ~Ok(r)
  BY <1>1, FailedAgrees DEF Completes
<1>2. CASE Ok(r)
  <2>1. r.validate = q.validate /\ r.code # "INVALID_JSON" /\ Settled(r, stack)
    BY <1>2 DEF Completes
  <2>2. Follows(r, h)
    BY <2>1, SettledFollows
  <2> QED
    BY <2>1, <2>2 DEF Agrees, Refused
<1> QED
  BY <1>1, <1>2

LEMMA MoveAgrees ==
  ASSUME NEW q, NEW r, NEW state, NEW comma, Moves(q, r, state, comma), Fitting(Top(r)),
         NEW h \in Automaton, h.stack = Kinds(q), h.spell = ~q.validate,
         h.ctl = Expects(Top(r)),
         Top(r).map /\ state \in {"colon", "value"} /\ h.paired => Top(r).field = FieldOf(h.text)
  PROVE  Agrees(r, h)
<1>1. /\ r.frames # <<>> /\ r.lex = "none" /\ r.started /\ ~r.finished /\ Ok(r)
      /\ r.validate = q.validate /\ Kinds(r) = Kinds(q) /\ Top(r).state = state
  BY DEF Moves
<1>2. Flags(r)
  BY <1>1, FlagsBetween
<1>3. Place(r) = h.ctl
  BY <1>1 DEF Place
<1>4. InNone(r, h)
  BY <1>1, <1>3 DEF InNone
<1>5. Follows(r, h)
  BY <1>1, <1>2, <1>4 DEF Follows, Literals
<1> QED
  BY <1>1, <1>5 DEF Agrees, Refused, Ok

LEMMA ValueAgrees ==
  ASSUME NEW q, Ready(q), NEW c \in Marks, NEW g, Beside(q, g),
         q.frames = <<>> => q.validate \/ c \in {"{", "["}
  PROVE  Agrees(ValueStart(q, c), StartValue(g, c))
<1> DEFINE h == StartValue(g, c)
           r == ValueStart(q, c)
<1>0. q \in Parser /\ g \in Automaton /\ g.stack = Kinds(q) /\ g.spell = ~q.validate
  BY DEF Ready, Between, Sound, Beside
<1>1. /\ Stays(g, h)
      /\ c = "{" => h.ctl = "firstKey" /\ h.stack = Append(g.stack, "object")
      /\ c = "[" => h.ctl = "firstItem" /\ h.stack = Append(g.stack, "array")
      /\ c = Quote => h.ctl = "string" /\ h.stack = g.stack /\ ~h.key /\ ~h.high
      /\ c \in Digits \cup {"-"} => h.ctl = NumberHead(c) /\ h.stack = g.stack
      /\ LiteralOf(c) # {} =>
           /\ h.ctl = "literal" /\ h.stack = g.stack
           /\ h.want = Tail(Literals[CHOOSE l \in LiteralOf(c) : TRUE])
      /\ ~Opening(c) => h.ctl = "dead"
  BY <1>0, StartFactsOfValue
<1>2. h \in Automaton /\ h.spell = ~q.validate
  BY <1>0, <1>1 DEF Stays
<1>3. LiteralOf(c) # {} <=> c \in {"t", "f", "n"}
  BY LiteralHeads, Zenon
<1>8. r = CASE c = "{" -> BeginObject(q) [] c = "[" -> BeginArray(q) [] OTHER -> ScalarStart(q, c)
  BY DEF ValueStart
<1> HIDE DEF h, r
<1>4. CASE c = "{"
  <2>1. r = BeginObject(q)
    BY <1>4, <1>8
  <2> QED
    BY <1>0, <1>1, <1>2, <1>4, <2>1, BeginObjectFacts, OpenAgrees DEF h, r
<1>5. CASE c = "["
  <2>1. r = BeginArray(q)
    BY <1>5, <1>8
  <2> QED
    BY <1>0, <1>1, <1>2, <1>5, <2>1, BeginArrayFacts, OpenAgrees DEF h, r
<1>6. CASE c # "{" /\ c # "["
  <2>0. Open(q)
    BY <1>6 DEF Open
  <2>1. r = ScalarStart(q, c)
    BY <1>6, <1>8
  <2>2. CASE c = Quote
    <3>0. c # "-" /\ c \notin Digits /\ LiteralOf(c) = {}
      BY <1>3, <2>2 DEF Quote, Digits, NonZero
    <3>1. r = BeginString(q, FALSE)
      BY <2>1, <2>2, <3>0 DEF ScalarStart
    <3>2. Beside(q, h) /\ h.ctl = "string" /\ h.key = FALSE /\ ~h.high
      BY <1>0, <1>1, <1>2, <2>2 DEF Beside, Automaton
    <3> QED
      BY <2>0, <3>1, <3>2, StringBegins DEF h, r
  <2>3. CASE c \in Digits \cup {"-"}
    <3>0. c # Quote /\ LiteralOf(c) = {}
      BY <1>3, <2>3 DEF Quote, Digits, NonZero
    <3>1. r = BeginScalar(q, "number", c)
      BY <2>1, <2>3, <3>0 DEF ScalarStart
    <3>2. Beside(q, h) /\ h.ctl = NumberHead(c)
      BY <1>0, <1>1, <1>2, <2>3 DEF Beside
    <3> QED
      BY <2>0, <2>3, <3>1, <3>2, NumberBegins DEF h, r
  <2>4. CASE LiteralOf(c) # {}
    <3>0. c # Quote /\ c \notin Digits /\ c # "-"
      BY <2>4, WordFacts
    <3>1. r = BeginScalar(q, CHOOSE l \in LiteralOf(c) : TRUE, c)
      BY <2>1, <2>4, <3>0 DEF ScalarStart
    <3>2. Beside(q, h) /\ h.ctl = "literal"
          /\ h.want = Tail(Literals[CHOOSE l \in LiteralOf(c) : TRUE])
      BY <1>0, <1>1, <1>2, <2>4 DEF Beside
    <3> QED
      BY <2>0, <2>4, <3>1, <3>2, LiteralBegins DEF h, r
  <2>5. CASE ~Opening(c)
    <3>1. r = Fail(q, "INVALID_JSON")
      BY <2>1, <2>5 DEF ScalarStart, Opening
    <3>2. h.ctl = "dead"
      BY <1>1, <2>5
    <3> QED
      BY <1>0, <1>2, <3>1, <3>2, FailAgrees DEF h, r
  <2> QED
    BY <1>6, <2>2, <2>3, <2>4, <2>5 DEF Opening
<1> QED
  BY <1>4, <1>5, <1>6

LEMMA RootAgrees ==
  ASSUME NEW q, Ready(q), ~q.started, NEW c \in Marks, NEW g, Beside(q, g)
  PROVE  Agrees(RootStart(q, c), StartValue(g, c))
<1> DEFINE h == StartValue(g, c)
           r == RootStart(q, c)
<1>0. q \in Parser /\ g \in Automaton /\ g.stack = Kinds(q) /\ g.spell = ~q.validate
      /\ q.frames = <<>>
  BY DEF Ready, Between, Sound, Beside
<1>2. h \in Automaton /\ h.spell = ~q.validate
  BY <1>0, ValueKept DEF Stays
<1>1. CASE c \in {"{", "["}
  <2>1. r = ValueStart(q, c)
    BY <1>1 DEF RootStart
  <2> QED
    BY <1>1, <2>1, ValueAgrees
<1>3. CASE c \notin {"{", "["} /\ q.validate
  <2>1. r = ScalarStart(q, c) /\ ValueStart(q, c) = ScalarStart(q, c)
    BY <1>3 DEF RootStart, ValueStart
  <2> QED
    BY <1>3, <2>1, ValueAgrees
<1>4. CASE c \notin {"{", "["} /\ ~q.validate
  <2>1. r = Fail(ScalarStart(q, c), "TYPE_MISMATCH") \/ r = Fail(q, "TYPE_MISMATCH")
    BY <1>4 DEF RootStart
  <2>2. ScalarStart(q, c) \in Parser
    BY ScalarStartSound DEF Ready, Between, Sound
  <2>3. ScalarStart(q, c).validate = q.validate
    <3>1. Ready(q)
      OBVIOUS
    <3>2. BeginString(q, FALSE).validate = q.validate
      BY BeginStringFacts
    <3>3. BeginScalar(q, "number", c).validate = q.validate
      BY BeginScalarFacts DEF Modes
    <3>4. LiteralOf(c) # {} =>
            BeginScalar(q, CHOOSE l \in LiteralOf(c) : TRUE, c).validate = q.validate
      <4> SUFFICES ASSUME LiteralOf(c) # {}
                   PROVE  BeginScalar(q, CHOOSE l \in LiteralOf(c) : TRUE, c).validate = q.validate
        OBVIOUS
      <4> DEFINE l == CHOOSE l \in LiteralOf(c) : TRUE
      <4>1. l \in DOMAIN Literals
        BY WordFacts
      <4> HIDE DEF l
      <4>2. l \in Modes
        BY <4>1 DEF Literals, Modes
      <4>3. BeginScalar(q, l, c).validate = q.validate
        BY <4>2, BeginScalarFacts
      <4> QED
        BY <4>3 DEF l
    <3>5. Fail(q, "INVALID_JSON").validate = q.validate
      BY <1>0, FailFacts
    <3> QED
      BY <3>2, <3>3, <3>4, <3>5 DEF ScalarStart
  <2>4. r.validate = q.validate /\ ~Ok(r) /\ r.code = "TYPE_MISMATCH"
    BY <1>0, <2>1, <2>2, <2>3, FailFacts
  <2> HIDE DEF h, r
  <2>5. Agrees(r, h)
    BY <1>2, <2>4, FailedAgrees
  <2> QED
    BY <2>5 DEF h, r
<1> QED
  BY <1>1, <1>3, <1>4

\* The automaton beside a parser that is between tokens, in the same place.
At(q, g) ==
  /\ Beside(q, g) /\ g.ctl = Place(q)
  /\ (q.frames # <<>> /\ Top(q).map /\ Top(q).state \in {"colon", "value"} /\ g.paired) =>
        Top(q).field = FieldOf(g.text)

LEMMA NoValue ==
  ASSUME NEW g \in Automaton, NEW c, ~Opening(c)
  PROVE  StartValue(g, c).ctl = "dead"
  BY StartFactsOfValue, Zenon

LEMMA BetweenKept ==
  ASSUME NEW g \in Automaton, g.ctl \in Places, NEW c
  PROVE  Stays(g, BetweenStep(g, c)) /\ (g.ctl # "done" => BetweenStep(g, c).past = g.past)
  BY BetweenFacts, Zenon

LEMMA KeyStep ==
  ASSUME NEW g \in Automaton, g.ctl \in {"firstKey", "key"}, NEW c, c \notin Spaces
  PROVE  /\ c = Quote => BetweenStep(g, c) = StartString(g, TRUE)
         /\ g.ctl = "firstKey" /\ c = "}" => BetweenStep(g, c) = Close(g)
         /\ c # Quote /\ ~(g.ctl = "firstKey" /\ c = "}") => BetweenStep(g, c).ctl = "dead"
<1>1. g.ctl \in Places
  BY DEF Places
<1> QED
  BY <1>1, BetweenFacts, Zenon

LEMMA AfterStep ==
  ASSUME NEW g \in Automaton, g.ctl = "after", NEW c, c \notin Spaces
  PROVE  /\ c = "," => BetweenStep(g, c) = [g EXCEPT !.ctl = Comma(g)]
         /\ c = Closer(g) => BetweenStep(g, c) = Close(g)
         /\ c # "," /\ c # Closer(g) => BetweenStep(g, c).ctl = "dead"
<1>1. g.ctl \in Places
  BY DEF Places
<1> QED
  BY <1>1, BetweenFacts, Zenon

LEMMA OpenStep ==
  ASSUME NEW g \in Automaton, g.ctl \in Places, NEW c, c \notin Spaces
  PROVE  /\ g.ctl = "colon" =>
              BetweenStep(g, c) = IF c = ":" THEN [g EXCEPT !.ctl = "value"] ELSE Dead(g)
         /\ g.ctl \in {"root", "value", "item"} => BetweenStep(g, c) = StartValue(g, c)
         /\ g.ctl = "firstItem" =>
              BetweenStep(g, c) = IF c = "]" THEN Close(g) ELSE StartValue(g, c)
  BY BetweenFacts, Zenon

LEMMA ObjectAgrees ==
  ASSUME NEW q, Inside(q), Fitting(Top(q)), Top(q).kind = "object", NEW g, At(q, g),
         NEW c \in Marks, c \notin Spaces
  PROVE  Agrees(ObjectByte(q, c), BetweenStep(g, c))
<1> DEFINE h == BetweenStep(g, c)
           r == ObjectByte(q, c)
           f == Top(q)
<1>0. /\ q \in Parser /\ g \in Automaton /\ g.stack = Kinds(q) /\ g.spell = ~q.validate
      /\ f \in Frame /\ g.ctl = Expects(f) /\ q.frames # <<>>
  BY TopType DEF Inside, Between, Sound, At, Beside, Place
<1>1. Ready(q) /\ Open(q) /\ Beside(q, g)
  BY DEF Inside, Ready, Open, At
<1>2. g.ctl \in {"firstKey", "key", "colon", "value", "after"} /\ g.ctl \in Places
  BY <1>0 DEF Expects, Fitting, Places
<1>3. Last(g.stack) = "object"
  BY <1>0, KindsType
<1>4. Comma(g) = "key" /\ Closer(g) = "}"
  BY <1>3 DEF Comma, Closer
<1>5. /\ Stays(g, h)
      /\ g.ctl \in {"firstKey", "key"} =>
           /\ c = Quote => h = StartString(g, TRUE)
           /\ g.ctl = "firstKey" /\ c = "}" => h = Close(g)
           /\ c # Quote /\ ~(g.ctl = "firstKey" /\ c = "}") => h.ctl = "dead"
      /\ g.ctl = "colon" => h = IF c = ":" THEN [g EXCEPT !.ctl = "value"] ELSE Dead(g)
      /\ g.ctl = "value" => h = StartValue(g, c)
      /\ g.ctl = "after" =>
           /\ c = "," => h = [g EXCEPT !.ctl = Comma(g)]
           /\ c = Closer(g) => h = Close(g)
           /\ c # "," /\ c # Closer(g) => h.ctl = "dead"
  <2>1. Stays(g, h)
    BY <1>0, <1>2, BetweenKept
  <2>2. g.ctl \in {"firstKey", "key"} =>
           /\ c = Quote => h = StartString(g, TRUE)
           /\ g.ctl = "firstKey" /\ c = "}" => h = Close(g)
           /\ c # Quote /\ ~(g.ctl = "firstKey" /\ c = "}") => h.ctl = "dead"
    BY <1>0, KeyStep
  <2>3. g.ctl = "colon" => h = IF c = ":" THEN [g EXCEPT !.ctl = "value"] ELSE Dead(g)
    BY <1>0, <1>2, OpenStep
  <2>4. g.ctl = "value" => h = StartValue(g, c)
    BY <1>0, <1>2, OpenStep
  <2>5. g.ctl = "after" =>
           /\ c = "," => h = [g EXCEPT !.ctl = Comma(g)]
           /\ c = Closer(g) => h = Close(g)
           /\ c # "," /\ c # Closer(g) => h.ctl = "dead"
    BY <1>0, AfterStep
  <2> HIDE DEF h
  <2> QED
    BY <2>1, <2>2, <2>3, <2>4, <2>5
<1>6. h \in Automaton /\ h.spell = ~q.validate
  BY <1>0, <1>5 DEF Stays
<1>7. ASSUME r = Fail(q, "INVALID_JSON"), h.ctl = "dead" PROVE Agrees(r, h)
  BY <1>0, <1>6, <1>7, FailAgrees
<1>8. ASSUME r = FinalizeObject(q), h = Close(g) PROVE Agrees(r, h)
  <2>1. Completes(q, r, Front(Kinds(q)))
    BY <1>8, FinalizeFacts
  <2>2. h.stack = Front(Kinds(q)) /\ h.ctl = After(Front(Kinds(q)))
    BY <1>0, <1>8, CloseFacts
  <2> QED
    BY <1>6, <2>1, <2>2, CloseAgrees
<1>9. CASE f.state = "key"
  <2>1. g.ctl = (IF f.comma THEN "key" ELSE "firstKey")
    BY <1>0, <1>9 DEF Expects
  <2>2. CASE c = Quote
    <3>1. r = BeginString(q, TRUE)
      BY <1>9, <2>2 DEF ObjectByte, Quote
    <3>2. h = StartString(g, TRUE)
      BY <1>5, <2>1, <2>2
    <3>3. /\ h.ctl = "string" /\ h.stack = g.stack /\ h.key = TRUE /\ ~h.high /\ h.text = <<>>
      BY <1>0, <3>2, StringStartFacts
    <3>4. Beside(q, h)
      BY <1>0, <1>6, <3>3 DEF Beside
    <3> QED
      BY <1>0, <1>1, <3>1, <3>3, <3>4, StringBegins
  <2>3. CASE c = "}" /\ ~f.comma
    <3>1. r = FinalizeObject(q)
      BY <1>9, <2>3 DEF ObjectByte, Quote
    <3> QED
      BY <1>5, <1>8, <2>1, <2>3, <3>1
  <2>4. CASE c # Quote /\ ~(c = "}" /\ ~f.comma)
    <3>1. r = Fail(q, "INVALID_JSON")
      BY <1>9, <2>4 DEF ObjectByte
    <3> QED
      BY <1>5, <1>7, <2>1, <2>4, <3>1
  <2> QED
    BY <2>2, <2>3, <2>4
<1>10. CASE f.state = "colon"
  <2>1. g.ctl = "colon"
    BY <1>0, <1>10 DEF Expects
  <2>2. CASE c = ":"
    <3> DEFINE v == SetTop(q, [Top(q) EXCEPT !.state = "value"])
               e == [g EXCEPT !.ctl = "value"]
    <3>1. r = v
      BY <1>10, <2>2 DEF ObjectByte
    <3>2. Moves(q, v, "value", Top(q).comma) /\ Top(v).field = Top(q).field
      BY StateFacts
    <3>3. h = e
      BY <1>5, <2>1, <2>2
    <3>4. e.ctl = "value" /\ e.stack = g.stack /\ e.paired = g.paired /\ e.text = g.text
      BY <1>0 DEF Automaton
    <3> HIDE DEF e, v, h, r
    <3>5. Fitting(Top(v)) /\ Expects(Top(v)) = "value"
      BY <3>2 DEF Moves, Fitting, Expects
    <3>6. Top(v).map /\ h.paired => Top(v).field = FieldOf(h.text)
      BY <1>0, <1>10, <3>2, <3>3, <3>4 DEF Moves, At
    <3>7. /\ h \in Automaton /\ h.stack = Kinds(q) /\ h.spell = ~q.validate
          /\ h.ctl = Expects(Top(v))
      BY <1>0, <1>6, <3>3, <3>4, <3>5
    <3>8. Top(v).map /\ "value" \in {"colon", "value"} /\ h.paired =>
            Top(v).field = FieldOf(h.text)
      BY <3>6
    <3> DEFINE z == Top(q).comma
    <3>10. Moves(q, v, "value", z)
      BY <3>2
    <3> HIDE DEF z
    <3>9. Agrees(v, h)
      BY <3>5, <3>7, <3>8, <3>10, MoveAgrees
    <3> QED
      BY <3>1, <3>9 DEF h, r
  <2>3. CASE c # ":"
    <3>1. r = Fail(q, "INVALID_JSON")
      BY <1>10, <2>3 DEF ObjectByte
    <3>2. h.ctl = "dead"
      BY <1>0, <1>5, <2>1, <2>3, DeadFacts
    <3> QED
      BY <1>7, <3>1, <3>2
  <2> QED
    BY <2>2, <2>3
<1>11. CASE f.state = "value"
  <2>1. g.ctl = "value" /\ r = ValueStart(q, c)
    BY <1>0, <1>11 DEF Expects, ObjectByte
  <2>2. h = StartValue(g, c)
    BY <1>5, <2>1
  <2>3. Agrees(ValueStart(q, c), StartValue(g, c))
    BY <1>0, <1>1, ValueAgrees
  <2> QED
    BY <2>1, <2>2, <2>3
<1>12. CASE f.state = "comma"
  <2>1. g.ctl = "after"
    BY <1>0, <1>12 DEF Expects
  <2>2. CASE c = ","
    <3> DEFINE v == SetTop(q, [Top(q) EXCEPT !.state = "key", !.comma = TRUE])
               e == [g EXCEPT !.ctl = "key"]
    <3>1. r = v
      BY <1>12, <2>2 DEF ObjectByte
    <3>2. Moves(q, v, "key", TRUE)
      BY StateFacts
    <3>3. h = e
      BY <1>4, <1>5, <2>1, <2>2
    <3>4. e.ctl = "key" /\ e.stack = g.stack
      BY <1>0 DEF Automaton
    <3> HIDE DEF e, v, h, r
    <3>5. Fitting(Top(v)) /\ Expects(Top(v)) = "key"
      BY <3>2 DEF Moves, Fitting, Expects
    <3> QED
      BY <1>0, <1>6, <3>1, <3>2, <3>3, <3>4, <3>5, MoveAgrees DEF h, r
  <2>3. CASE c = "}"
    <3>1. r = FinalizeObject(q)
      BY <1>12, <2>3 DEF ObjectByte
    <3> QED
      BY <1>4, <1>5, <1>8, <2>1, <2>3, <3>1
  <2>4. CASE c # "," /\ c # "}"
    <3>1. r = Fail(q, "INVALID_JSON")
      BY <1>12, <2>4 DEF ObjectByte
    <3> QED
      BY <1>4, <1>5, <1>7, <2>1, <2>4, <3>1
  <2> QED
    BY <2>2, <2>3, <2>4
<1> QED
  BY <1>9, <1>10, <1>11, <1>12 DEF Fitting

LEMMA ArrayAgrees ==
  ASSUME NEW q, Inside(q), Fitting(Top(q)), Top(q).kind = "array", NEW g, At(q, g),
         NEW c \in Marks, c \notin Spaces
  PROVE  Agrees(ArrayByte(q, c), BetweenStep(g, c))
<1> DEFINE h == BetweenStep(g, c)
           r == ArrayByte(q, c)
           f == Top(q)
<1>0. /\ q \in Parser /\ g \in Automaton /\ g.stack = Kinds(q) /\ g.spell = ~q.validate
      /\ f \in Frame /\ g.ctl = Expects(f) /\ q.frames # <<>>
  BY TopType DEF Inside, Between, Sound, At, Beside, Place
<1>1. Ready(q) /\ Beside(q, g)
  BY DEF Inside, Ready, At
<1>2. g.ctl \in {"firstItem", "item", "after"} /\ g.ctl \in Places
  BY <1>0 DEF Expects, Fitting, Places
<1>3. Last(g.stack) = "array"
  BY <1>0, KindsType
<1>4. Comma(g) = "item" /\ Closer(g) = "]"
  BY <1>3 DEF Comma, Closer
<1>5. /\ Stays(g, h)
      /\ g.ctl = "item" => h = StartValue(g, c)
      /\ g.ctl = "firstItem" => h = IF c = "]" THEN Close(g) ELSE StartValue(g, c)
      /\ g.ctl = "after" =>
           /\ c = "," => h = [g EXCEPT !.ctl = Comma(g)]
           /\ c = Closer(g) => h = Close(g)
           /\ c # "," /\ c # Closer(g) => h.ctl = "dead"
  <2>1. Stays(g, h)
    BY <1>0, <1>2, BetweenKept
  <2>3. g.ctl = "firstItem" => h = IF c = "]" THEN Close(g) ELSE StartValue(g, c)
    BY <1>0, <1>2, OpenStep
  <2>4. g.ctl = "item" => h = StartValue(g, c)
    BY <1>0, <1>2, OpenStep
  <2>5. g.ctl = "after" =>
           /\ c = "," => h = [g EXCEPT !.ctl = Comma(g)]
           /\ c = Closer(g) => h = Close(g)
           /\ c # "," /\ c # Closer(g) => h.ctl = "dead"
    BY <1>0, AfterStep
  <2> HIDE DEF h
  <2> QED
    BY <2>1, <2>3, <2>4, <2>5
<1>6. h \in Automaton /\ h.spell = ~q.validate
  BY <1>0, <1>5 DEF Stays
<1>7. ASSUME r = Fail(q, "INVALID_JSON"), h.ctl = "dead" PROVE Agrees(r, h)
  BY <1>0, <1>6, <1>7, FailAgrees
<1>8. ASSUME r = FinalizeArray(q), h = Close(g) PROVE Agrees(r, h)
  <2>1. Completes(q, r, Front(Kinds(q)))
    BY <1>8, FinalizeFacts
  <2>2. h.stack = Front(Kinds(q)) /\ h.ctl = After(Front(Kinds(q)))
    BY <1>0, <1>8, CloseFacts
  <2> QED
    BY <1>6, <2>1, <2>2, CloseAgrees
<1>9. CASE f.state = "item"
  <2>1. g.ctl = (IF f.comma THEN "item" ELSE "firstItem")
    BY <1>0, <1>9 DEF Expects
  <2>2. CASE c = "]" /\ ~f.comma
    <3>1. r = FinalizeArray(q)
      BY <1>9, <2>2 DEF ArrayByte
    <3> QED
      BY <1>5, <1>8, <2>1, <2>2, <3>1
  <2>3. CASE c = "]" /\ f.comma
    <3>1. r = Fail(q, "INVALID_JSON")
      BY <1>9, <2>3 DEF ArrayByte
    <3>2. h = StartValue(g, c)
      BY <1>5, <2>1, <2>3
    <3>3. ~Opening(c)
      <4>1. LiteralOf(c) # {} <=> c \in {"t", "f", "n"}
        BY LiteralHeads, Zenon
      <4> QED
        BY <2>3, <4>1 DEF Opening, Digits, NonZero, Quote
    <3>4. h.ctl = "dead"
      BY <1>0, <3>2, <3>3, NoValue
    <3> QED
      BY <1>7, <3>1, <3>4
  <2>4. CASE c # "]"
    <3>1. r = ValueStart(q, c) /\ h = StartValue(g, c)
      BY <1>5, <1>9, <2>1, <2>4 DEF ArrayByte
    <3> QED
      BY <1>0, <1>1, <3>1, ValueAgrees
  <2> QED
    BY <2>2, <2>3, <2>4
<1>12. CASE f.state = "comma"
  <2>1. g.ctl = "after"
    BY <1>0, <1>12 DEF Expects
  <2>2. CASE c = ","
    <3> DEFINE v == SetTop(q, [Top(q) EXCEPT !.state = "item", !.comma = TRUE])
               e == [g EXCEPT !.ctl = "item"]
    <3>1. r = v
      BY <1>12, <2>2 DEF ArrayByte
    <3>2. Moves(q, v, "item", TRUE)
      BY StateFacts
    <3>3. h = e
      BY <1>4, <1>5, <2>1, <2>2
    <3>4. e.ctl = "item" /\ e.stack = g.stack
      BY <1>0 DEF Automaton
    <3> HIDE DEF e, v, h, r
    <3>5. Fitting(Top(v)) /\ Expects(Top(v)) = "item"
      BY <3>2 DEF Moves, Fitting, Expects
    <3> QED
      BY <1>0, <1>6, <3>1, <3>2, <3>3, <3>4, <3>5, MoveAgrees DEF h, r
  <2>3. CASE c = "]"
    <3>1. r = FinalizeArray(q)
      BY <1>12, <2>3 DEF ArrayByte
    <3> QED
      BY <1>4, <1>5, <1>8, <2>1, <2>3, <3>1
  <2>4. CASE c # "," /\ c # "]"
    <3>1. r = Fail(q, "INVALID_JSON")
      BY <1>12, <2>4 DEF ArrayByte
    <3> QED
      BY <1>4, <1>5, <1>7, <2>1, <2>4, <3>1
  <2> QED
    BY <2>2, <2>3, <2>4
<1> QED
  BY <1>9, <1>12 DEF Fitting

LEMMA PlaceType ==
  ASSUME NEW q \in Parser
  PROVE  Place(q) \in Places
<1>1. CASE q.frames = <<>>
  BY <1>1 DEF Place, Places
<1>2. CASE q.frames # <<>>
  <2>1. Top(q) \in Frame
    BY <1>2, TopType
  <2> QED
    BY <1>2, <2>1 DEF Place, Places, Expects, Frame
<1> QED
  BY <1>1, <1>2

LEMMA StructureAgrees ==
  ASSUME NEW q, Between(q), Ok(q), Flags(q), NEW g, At(q, g), NEW c \in Marks
  PROVE  Agrees(StructureByte(q, c), BetweenStep(g, c))
<1> DEFINE h == BetweenStep(g, c)
           r == StructureByte(q, c)
<1>0. /\ q \in Parser /\ q.lex = "none"
      /\ g \in Automaton /\ g.stack = Kinds(q) /\ g.spell = ~q.validate
  BY DEF Between, Sound, At, Beside
<1>1. /\ q.frames # <<>> => q.started /\ Fitting(Top(q))
      /\ q.finished <=> q.frames = <<>> /\ q.started
  BY <1>0, FlagsBetween
<1>2. g.ctl \in Places
  BY <1>0, PlaceType DEF At
<1>3. Stays(g, h)
  BY <1>0, <1>2, BetweenFacts
<1>4. h \in Automaton /\ h.spell = ~q.validate /\ h.paired = g.paired
  BY <1>0, <1>3 DEF Stays
<1>5. CASE c \in Spaces
  <2>1. r = q
    BY <1>5 DEF StructureByte
  <2>2. h.ctl = g.ctl /\ h.stack = g.stack /\ h.text = g.text
    BY <1>0, <1>2, <1>5, BetweenFacts
  <2> HIDE DEF h, r
  <2>3. InNone(q, h)
    BY <1>4, <2>2 DEF InNone, At
  <2>4. Follows(q, h)
    BY <1>0, <1>4, <2>2, <2>3 DEF Follows, Literals
  <2>5. Agrees(q, h)
    BY <1>4, <2>4 DEF Agrees, Refused, Ok
  <2> QED
    BY <2>1, <2>5 DEF h, r
<1>6. CASE c \notin Spaces /\ ~q.started
  <2>1. r = RootStart(q, c)
    BY <1>6 DEF StructureByte
  <2>2. q.frames = <<>> /\ Ready(q)
    BY <1>1, <1>6 DEF Ready
  <2>3. g.ctl = "root"
    BY <1>6, <2>2 DEF At, Place
  <2>4. h = StartValue(g, c)
    BY <1>6, <2>3 DEF BetweenStep
  <2> QED
    BY <1>6, <2>1, <2>2, <2>4, RootAgrees DEF At
<1>7. CASE c \notin Spaces /\ q.started /\ q.frames = <<>>
  <2>1. r = Fail(q, "INVALID_JSON")
    BY <1>7 DEF StructureByte
  <2>2. g.ctl = "done"
    BY <1>7 DEF At, Place
  <2>3. h.ctl = "dead"
    BY <1>0, <1>2, <1>7, <2>2, BetweenFacts
  <2> QED
    BY <1>0, <1>4, <2>1, <2>3, FailAgrees
<1>8. CASE c \notin Spaces /\ q.started /\ q.frames # <<>>
  <2>1. Inside(q) /\ Fitting(Top(q)) /\ Top(q) \in Frame
    BY <1>0, <1>1, <1>8, TopType DEF Inside
  <2>2. CASE Top(q).kind = "object"
    <3>1. r = ObjectByte(q, c)
      BY <1>8, <2>2 DEF StructureByte
    <3> QED
      BY <1>8, <2>1, <2>2, <3>1, ObjectAgrees
  <2>3. CASE Top(q).kind = "array"
    <3>1. r = ArrayByte(q, c)
      BY <1>8, <2>3 DEF StructureByte
    <3> QED
      BY <1>8, <2>1, <2>3, <3>1, ArrayAgrees
  <2> QED
    BY <2>1, <2>2, <2>3 DEF Frame
<1> QED
  BY <1>5, <1>6, <1>7, <1>8

\* A byte between tokens, after a number that only its follower ends too.
LEMMA BetweenAgrees ==
  ASSUME NEW q, Between(q), Ok(q), NEW g \in Automaton, Follows(q, g), NEW c \in Marks,
         g.ctl \in NumberEnds => c \notin NumberBytes
  PROVE  /\ Agrees(StructureByte(q, c), GrammarStep(g, c))
         /\ GrammarStep(g, c).spell = g.spell
         /\ Place(q) # "done" => GrammarStep(g, c).past = g.past
<1>1. q.lex = "none" /\ Flags(q) /\ InNone(q, g) /\ g.spell = ~q.validate /\ q \in Parser
  BY DEF Between, Follows, Sound
<1>2. Place(q) \in Places
  BY <1>1, PlaceType
<1>3. g.ctl # "dead" /\ g.stack = Kinds(q)
  BY <1>1, <1>2 DEF InNone, Follows, Places, NumberEnds
<1>4. CASE g.ctl = Place(q)
  <2>1. At(q, g)
    BY <1>1, <1>3, <1>4 DEF At, Beside, InNone
  <2>2. GrammarStep(g, c) = BetweenStep(g, c)
    BY <1>2, <1>4, PlaceStep
  <2>3. Stays(g, BetweenStep(g, c)) /\ (g.ctl # "done" => BetweenStep(g, c).past = g.past)
    BY <1>2, <1>4, BetweenKept
  <2> QED
    BY <1>1, <1>4, <2>1, <2>2, <2>3, StructureAgrees DEF Stays
<1>5. CASE g.ctl # Place(q)
  <2>1. g.ctl \in NumberEnds /\ Place(q) \in {"after", "done"} /\ c \notin NumberBytes
    BY <1>1, <1>5 DEF InNone
  <2> DEFINE e == EndValue(g)
  <2>2. /\ Within(g, e) /\ e.ctl = After(g.stack) /\ e.paired = g.paired
    BY EndFacts
  <2>3. GrammarStep(g, c) = BetweenStep(e, c)
    BY <2>1, NumberEndFacts DEF NumberEnds, NumberStates
  <2> HIDE DEF e
  <2>4. After(g.stack) = Place(q)
    <3>1. Kinds(q) = <<>> <=> q.frames = <<>>
      BY <1>1, KindsType
    <3>2. q.frames # <<>> => Expects(Top(q)) # "done"
      <4> SUFFICES ASSUME q.frames # <<>> PROVE Expects(Top(q)) # "done"
        OBVIOUS
      <4>1. Top(q) \in Frame
        BY <1>1, TopType
      <4> QED
        BY <4>1 DEF Expects, Frame
    <3> QED
      BY <1>3, <2>1, <3>1, <3>2 DEF After, Place
  <2>5. At(q, e)
    <3>1. q.frames # <<>> => Top(q).state \notin {"colon", "value"}
      BY <2>1 DEF Place, Expects
    <3> QED
      BY <1>1, <1>3, <2>2, <2>4, <3>1 DEF At, Beside, Within
  <2>6. Stays(e, BetweenStep(e, c)) /\ (e.ctl # "done" => BetweenStep(e, c).past = e.past)
    <3>1. e \in Automaton /\ e.ctl \in Places
      BY <1>2, <2>2, <2>4 DEF Within
    <3> QED
      BY <3>1, BetweenKept
  <2> QED
    BY <1>1, <2>2, <2>3, <2>4, <2>5, <2>6, StructureAgrees DEF Stays, Within
<1> QED
  BY <1>4, <1>5

-----------------------------------------------------------------------------
(***************************************************************************)
(* What the parser keeps of a string is what the grammar spells.           *)
(***************************************************************************)

\* What the bytes of a string leave alone.
Same(q, r) ==
  /\ r.validate = q.validate /\ r.frames = q.frames /\ r.started = q.started
  /\ r.finished = q.finished /\ r.lex = q.lex /\ r.isKey = q.isKey /\ r.capture = q.capture

\* A parser between the bytes of a string, and the automaton beside it.
Reads(q, g) ==
  /\ q \in Parser /\ Ok(q) /\ q.lex = "string" /\ Flags(q) /\ q.need = 0 /\ ~q.escape
  /\ g \in Automaton /\ g.stack = Kinds(q) /\ g.spell = ~q.validate /\ Spelling(q, g)

LEMMA AppendTextFacts ==
  ASSUME NEW q \in Parser, NEW s \in Seq(Marks), Ok(q)
  PROVE  LET r == AppendText(q, s) IN
         /\ Same(q, r) /\ r.code # "INVALID_JSON"
         /\ r.need = q.need /\ r.escape = q.escape /\ r.high = q.high
         /\ Ok(r) => r.token = IF q.capture = "token" THEN q.token \o s ELSE q.token
<1> DEFINE r == AppendText(q, s)
           e == [q EXCEPT !.token = q.token \o s]
           f == Fail(q, "ALLOCATION_FAILED")
<1>1. r = q \/ r = e \/ r = f
  BY DEF AppendText, ScratchAppendBytes
<1>2. r = q \/ q.capture = "token"
  BY DEF AppendText
<1>3. q.capture = "token" => r = e \/ r = f
  BY DEF AppendText, ScratchAppendBytes
<1>4. /\ Same(q, e) /\ e.need = q.need /\ e.escape = q.escape /\ e.high = q.high
      /\ e.code = q.code /\ e.token = q.token \o s
  BY DEF Parser, Same
<1>5. /\ Same(q, f) /\ f.need = q.need /\ f.escape = q.escape /\ f.high = q.high
      /\ f.code = "ALLOCATION_FAILED"
  BY DEF Parser, Same, Fail
<1>6. Same(q, q)
  BY DEF Same
<1> HIDE DEF e, f, r
<1> QED
  BY <1>1, <1>2, <1>3, <1>4, <1>5, <1>6 DEF Ok, r

LEMMA AppendByteFacts ==
  ASSUME NEW q \in Parser, NEW c \in Marks, Ok(q)
  PROVE  LET r == AppendByte(q, c) IN
         /\ Same(q, r) /\ r.code # "INVALID_JSON"
         /\ r.need = q.need /\ r.escape = q.escape /\ r.high = q.high
         /\ Ok(r) => r.token = IF q.capture = "token" THEN Append(q.token, c) ELSE q.token
<1> DEFINE r == AppendByte(q, c)
           e == [q EXCEPT !.token = Append(q.token, c)]
           f == Fail(q, "ALLOCATION_FAILED")
<1>1. r = q \/ r = e \/ r = f
  BY DEF AppendByte, ScratchAppend
<1>2. r = q \/ q.capture = "token"
  BY DEF AppendByte
<1>3. q.capture = "token" => r = e \/ r = f
  BY DEF AppendByte, ScratchAppend
<1>4. /\ Same(q, e) /\ e.need = q.need /\ e.escape = q.escape /\ e.high = q.high
      /\ e.code = q.code /\ e.token = Append(q.token, c)
  BY DEF Parser, Same
<1>5. /\ Same(q, f) /\ f.need = q.need /\ f.escape = q.escape /\ f.high = q.high
      /\ f.code = "ALLOCATION_FAILED"
  BY DEF Parser, Same, Fail
<1>6. Same(q, q)
  BY DEF Same
<1> HIDE DEF e, f, r
<1> QED
  BY <1>1, <1>2, <1>3, <1>4, <1>5, <1>6 DEF Ok, r

\* A parser that read on inside its string.
LEMMA TextAgrees ==
  ASSUME NEW q, NEW g, q.lex = "string", Flags(q), g.stack = Kinds(q), g.spell = ~q.validate,
         NEW r, Same(q, r), NEW h, Within(g, h),
         Ok(r) => InText(r, h), r.code = "INVALID_JSON" => h.ctl = "dead" \/ ~h.paired
  PROVE  Agrees(r, h)
<1>1. Flags(r)
  BY DEF Same, Flags, Top
<1>2. Kinds(r) = Kinds(q)
  BY DEF Same, Kinds
<1>3. h \in Automaton /\ h.stack = g.stack /\ h.spell = ~r.validate
  BY DEF Within, Same
<1>4. r.lex = "string"
  BY DEF Same
<1>5. Ok(r) => Follows(r, h)
  BY <1>1, <1>2, <1>3, <1>4 DEF Follows, Literals
<1> QED
  BY <1>3, <1>5 DEF Agrees, Refused

\* The same for one whose string has no escape open.
LEMMA ReadsAgrees ==
  ASSUME NEW q, NEW g, Reads(q, g), NEW r, Same(q, r), ~r.escape, r.need = 0,
         NEW h, Within(g, h), h.ctl = "string",
         Ok(r) => Spelling(r, h), r.code = "INVALID_JSON" => ~h.paired
  PROVE  Agrees(r, h)
<1>1. Ok(r) => InText(r, h)
  BY DEF InText
<1> QED
  BY <1>1, TextAgrees DEF Reads

\* What spells the same still does with the same symbols after it.
LEMMA SpellingGrows ==
  ASSUME NEW t \in Seq(Marks), NEW u \in Seq(Symbols), NEW s \in Seq(Marks), SameSpelling(t, u)
  PROVE  SameSpelling(t \o s, u \o s)
<1>1. CASE t = u
  BY <1>1 DEF SameSpelling
<1>2. CASE Shows(t, CodePoint) /\ Shows(u, CodePoint)
  <2>0. s \in Seq(Symbols)
    BY MarksAreSymbols
  <2>1. PICK i \in DOMAIN t : t[i] = CodePoint
    BY <1>2 DEF Shows
  <2>2. PICK j \in DOMAIN u : u[j] = CodePoint
    BY <1>2 DEF Shows
  <2>3. i \in DOMAIN (t \o s) /\ (t \o s)[i] = CodePoint
    BY <2>1
  <2>4. j \in DOMAIN (u \o s) /\ (u \o s)[j] = CodePoint
    BY <2>0, <2>2
  <2> QED
    BY <2>3, <2>4 DEF SameSpelling, Shows
<1> QED
  BY <1>1, <1>2 DEF SameSpelling

LEMMA SpellingGrowsByOne ==
  ASSUME NEW t \in Seq(Marks), NEW u \in Seq(Symbols), NEW c \in Marks, SameSpelling(t, u)
  PROVE  SameSpelling(Append(t, c), Append(u, c))
<1>1. c \in Symbols
  BY MarksAreSymbols
<1>2. t \o <<c>> = Append(t, c)
  OBVIOUS
<1>3. u \o <<c>> = Append(u, c)
  BY <1>1
<1>4. <<c>> \in Seq(Marks)
  OBVIOUS
<1> QED
  BY <1>2, <1>3, <1>4, SpellingGrows

LEMMA PointShows ==
  ASSUME NEW t \in Seq(Marks), NEW u \in Seq(Symbols), NEW s \in Seq(Marks), s # <<>>,
         s[1] = CodePoint
  PROVE  SameSpelling(t \o s, Append(u, CodePoint))
<1>1. CodePoint \in Symbols
  BY MarksAreSymbols DEF CodePoint, Marks
<1>2. Len(t) + 1 \in DOMAIN (t \o s) /\ (t \o s)[Len(t) + 1] = CodePoint
  OBVIOUS
<1>3. Len(u) + 1 \in DOMAIN Append(u, CodePoint) /\ Append(u, CodePoint)[Len(u) + 1] = CodePoint
  BY <1>1
<1> QED
  BY <1>2, <1>3 DEF SameSpelling, Shows

\* A parser keeps the bytes of the keys that the automaton spells.
LEMMA KeepsKeys ==
  ASSUME NEW q, NEW g, Reads(q, g)
  PROVE  /\ q.capture = "token" <=> g.spell
         /\ g.key = q.isKey /\ q.token \in Seq(Marks) /\ g.text \in Seq(Symbols)
  BY DEF Reads, Flags, Parser, Automaton, Spelling

\* A symbol joins the string.
LEMMA SymbolAgrees ==
  ASSUME NEW q, NEW g, Reads(q, g), NEW c \in Marks, NEW h, Took(g, h, c)
  PROVE  Agrees(AppendByte(q, c), h)
<1> DEFINE r == AppendByte(q, c)
<1>1. /\ Same(q, r) /\ r.code # "INVALID_JSON" /\ r.need = 0 /\ ~r.escape /\ r.high = q.high
      /\ Ok(r) => r.token = IF q.capture = "token" THEN Append(q.token, c) ELSE q.token
  BY AppendByteFacts DEF Reads
<1>2. /\ Within(g, h) /\ h.ctl = "string" /\ ~h.high /\ (h.paired <=> g.paired /\ ~g.high)
      /\ h.paired => h.text = IF g.key /\ g.spell THEN Append(g.text, c) ELSE g.text
  BY DEF Took, Spelled
<1> HIDE DEF r
<1>3. ASSUME Ok(r) PROVE Spelling(r, h)
  <2>1. h.key = r.isKey
    BY <1>1, <1>2, KeepsKeys DEF Within, Same
  <2>2. h.paired /\ r.high # 0 => h.high
    BY <1>1, <1>2 DEF Reads, Spelling
  <2>3. ASSUME r.isKey, h.paired PROVE SameSpelling(r.token, h.text)
    <3>1. q.isKey /\ g.paired /\ SameSpelling(q.token, g.text) /\ g.key
      BY <1>1, <1>2, <2>3 DEF Same, Reads, Spelling
    <3>2. SameSpelling(Append(q.token, c), Append(g.text, c))
      BY <3>1, KeepsKeys, SpellingGrowsByOne
    <3> QED
      BY <1>1, <1>2, <1>3, <2>3, <3>1, <3>2, KeepsKeys
  <2> QED
    BY <1>2, <2>1, <2>2, <2>3 DEF Spelling
<1> QED
  BY <1>1, <1>2, <1>3, ReadsAgrees DEF r

\* A run of plain bytes joins it.
LEMMA RunAgrees ==
  ASSUME NEW q, NEW g, Reads(q, g), NEW s \in Seq(Marks), NEW h, Extended(g, h, s)
  PROVE  Agrees(AppendText(q, s), h)
<1> DEFINE r == AppendText(q, s)
<1>1. /\ Same(q, r) /\ r.code # "INVALID_JSON" /\ r.need = 0 /\ ~r.escape /\ r.high = q.high
      /\ Ok(r) => r.token = IF q.capture = "token" THEN q.token \o s ELSE q.token
  BY AppendTextFacts DEF Reads
<1>2. /\ Within(g, h) /\ h.ctl = "string" /\ ~h.high /\ (h.paired <=> g.paired /\ ~g.high)
      /\ h.paired => h.text = IF g.key /\ g.spell THEN g.text \o s ELSE g.text
  BY DEF Extended
<1> HIDE DEF r
<1>3. ASSUME Ok(r) PROVE Spelling(r, h)
  <2>1. h.key = r.isKey
    BY <1>1, <1>2, KeepsKeys DEF Within, Same
  <2>2. h.paired /\ r.high # 0 => h.high
    BY <1>1, <1>2 DEF Reads, Spelling
  <2>3. ASSUME r.isKey, h.paired PROVE SameSpelling(r.token, h.text)
    <3>1. q.isKey /\ g.paired /\ SameSpelling(q.token, g.text) /\ g.key
      BY <1>1, <1>2, <2>3 DEF Same, Reads, Spelling
    <3>2. SameSpelling(q.token \o s, g.text \o s)
      BY <3>1, KeepsKeys, SpellingGrows
    <3> QED
      BY <1>1, <1>2, <1>3, <2>3, <3>1, <3>2, KeepsKeys
  <2> QED
    BY <1>2, <2>1, <2>2, <2>3 DEF Spelling
<1> QED
  BY <1>1, <1>2, <1>3, ReadsAgrees DEF r

\* Keys are looked up by their decoded spelling.
LEMMA SameField ==
  ASSUME NEW t, NEW u, SameSpelling(t, u)
  PROVE  FieldOf(t) = FieldOf(u)
<1>1. CASE t = u
  BY <1>1
<1>2. CASE Shows(t, CodePoint) /\ Shows(u, CodePoint)
  <2>1. t \notin DOMAIN FieldKind
    BY <1>2, KeyAssumption DEF Shows, Range
  <2>2. u \notin DOMAIN FieldKind
    BY <1>2, KeyAssumption DEF Shows, Range
  <2> QED
    BY <2>1, <2>2 DEF FieldOf
<1> QED
  BY <1>1, <1>2 DEF SameSpelling

\* A code point joins the string, or pairs with the surrogate before it.
LEMMA PointAgrees ==
  ASSUME NEW q, NEW g, Reads(q, g), NEW cp \in Nat, NEW h, Pointed(g, h, cp)
  PROVE  Agrees(AcceptCodePoint(q, cp), h)
<1> DEFINE r == AcceptCodePoint(q, cp)
<1>0. /\ Within(g, h) /\ h.ctl = "string" /\ (h.high <=> IsHigh(cp))
      /\ IsLow(cp) => (h.paired <=> g.paired /\ g.high)
      /\ ~IsLow(cp) => (h.paired <=> g.paired /\ ~g.high)
      /\ h.paired /\ IsHigh(cp) => h.text = g.text
      /\ h.paired /\ IsLow(cp) => h.text = Spelled(g, CodePoint)
      /\ h.paired /\ ~IsHigh(cp) /\ ~IsLow(cp) => h.text = Spelled(g, DecodedPoint(cp))
  BY DEF Pointed
<1>1. /\ q \in Parser /\ Ok(q) /\ q.need = 0 /\ ~q.escape /\ h \in Automaton
      /\ h.spell = ~q.validate /\ h.key = q.isKey /\ q.code = "OK"
      /\ g.high => q.high # 0
      /\ g.paired /\ q.high # 0 => g.high
      /\ q.isKey /\ g.paired => SameSpelling(q.token, g.text)
  BY <1>0 DEF Reads, Within, Spelling, Ok
<1>2. ~(IsHigh(cp) /\ IsLow(cp))
  BY HighOrLow
<1>3. CASE (q.high # 0 /\ ~IsLow(cp)) \/ (q.high = 0 /\ IsLow(cp))
  <2>1. r = Fail(q, "INVALID_JSON")
    BY <1>2, <1>3 DEF AcceptCodePoint
  <2>2. ~h.paired
    BY <1>0, <1>1, <1>3
  <2> QED
    BY <1>1, <2>1, <2>2, FailAgrees
<1>4. CASE q.high # 0 /\ IsLow(cp)
  <2> DEFINE e == [q EXCEPT !.high = 0]
             s == <<CodePoint, "cont", "cont", "cont">>
  <2>1. r = AppendText(e, s)
    BY <1>4 DEF AcceptCodePoint
  <2>2. e \in Parser /\ Ok(e) /\ Same(q, e) /\ e.need = 0 /\ ~e.escape /\ e.high = 0
        /\ e.token = q.token
    BY <1>1 DEF Parser, Same, Ok
  <2>3. s \in Seq(Marks) /\ s # <<>> /\ s[1] = CodePoint
    BY DEF Marks, CodePoint
  <2> HIDE DEF e, s
  <2>4. /\ Same(e, r) /\ r.code # "INVALID_JSON" /\ r.need = 0 /\ ~r.escape /\ r.high = 0
        /\ Ok(r) => r.token = IF e.capture = "token" THEN e.token \o s ELSE e.token
    BY <2>1, <2>2, <2>3, AppendTextFacts
  <2> HIDE DEF r
  <2>5. Same(q, r)
    BY <2>2, <2>4 DEF Same
  <2>6. ASSUME Ok(r) PROVE Spelling(r, h)
    <3>1. ASSUME r.isKey, h.paired PROVE SameSpelling(r.token, h.text)
      <4>1. q.isKey /\ g.paired /\ g.key /\ SameSpelling(q.token, g.text)
        BY <1>0, <1>1, <1>4, <2>5, <3>1, KeepsKeys DEF Same
      <4>2. CASE g.spell
        <5>1. r.token = q.token \o s /\ h.text = Append(g.text, CodePoint)
          BY <1>0, <1>4, <2>2, <2>4, <2>6, <3>1, <4>1, <4>2, KeepsKeys DEF Same, Spelled
        <5> QED
          BY <2>3, <5>1, KeepsKeys, PointShows
      <4>3. CASE ~g.spell
        <5>1. r.token = q.token /\ h.text = g.text
          BY <1>0, <1>4, <2>2, <2>4, <2>6, <3>1, <4>1, <4>3, KeepsKeys DEF Same, Spelled
        <5> QED
          BY <4>1, <5>1
      <4> QED
        BY <4>2, <4>3
    <3>2. h.key = r.isKey /\ ~h.high /\ r.high = 0
      BY <1>0, <1>1, <1>2, <1>4, <2>4, <2>5 DEF Same
    <3> QED
      BY <3>1, <3>2 DEF Spelling
  <2>7. Agrees(r, h)
    BY <1>0, <2>4, <2>5, <2>6, ReadsAgrees
  <2> QED
    BY <2>7 DEF r
<1>5. CASE q.high = 0 /\ IsHigh(cp)
  <2> DEFINE e == [q EXCEPT !.high = cp]
  <2>1. r = e
    BY <1>2, <1>5 DEF AcceptCodePoint
  <2>2. Ok(e) /\ Same(q, e) /\ e.need = 0 /\ ~e.escape /\ e.high = cp /\ e.token = q.token
        /\ e.code = "OK" /\ cp # 0
    BY <1>1, <1>5 DEF Parser, Same, Ok, IsHigh
  <2> HIDE DEF e
  <2>3. Spelling(e, h)
    BY <1>0, <1>1, <1>2, <1>5, <2>2 DEF Spelling, Same
  <2>4. Agrees(e, h)
    BY <1>0, <2>2, <2>3, ReadsAgrees
  <2> QED
    BY <2>1, <2>4
<1>6. CASE q.high = 0 /\ ~IsHigh(cp) /\ ~IsLow(cp)
  <2> DEFINE s == Utf8Of(cp)
             d == DecodedPoint(cp)
  <2>1. r = AppendText(q, s)
    BY <1>6 DEF AcceptCodePoint
  <2>2. s \in Seq(Marks)
    BY Utf8OfType
  <2>3. d \in Marks /\ (s = <<d>> \/ (d = CodePoint /\ s # <<>> /\ s[1] = CodePoint))
    <3>1. CASE cp <= 127
      BY <3>1 DEF Utf8Of, DecodedPoint, Marks, CodePoint
    <3>2. CASE cp > 127 /\ cp <= 2047
      <4>1. s = <<CodePoint, "cont">> /\ d = CodePoint
        BY <3>2 DEF Utf8Of, DecodedPoint
      <4> QED
        BY <4>1 DEF Marks, CodePoint
    <3>3. CASE cp > 2047
      <4>1. s = <<CodePoint, "cont", "cont">> /\ d = CodePoint
        BY <3>3 DEF Utf8Of, DecodedPoint
      <4> QED
        BY <4>1 DEF Marks, CodePoint
    <3> QED
      BY <3>1, <3>2, <3>3
  <2> HIDE DEF s, d
  <2>4. /\ Same(q, r) /\ r.code # "INVALID_JSON" /\ r.need = 0 /\ ~r.escape /\ r.high = 0
        /\ Ok(r) => r.token = IF q.capture = "token" THEN q.token \o s ELSE q.token
    BY <1>1, <1>6, <2>1, <2>2, AppendTextFacts
  <2> HIDE DEF r
  <2>5. ASSUME Ok(r) PROVE Spelling(r, h)
    <3>1. ASSUME r.isKey, h.paired PROVE SameSpelling(r.token, h.text)
      <4>1. q.isKey /\ g.paired /\ g.key /\ SameSpelling(q.token, g.text)
        BY <1>0, <1>1, <1>6, <2>4, <3>1, KeepsKeys DEF Same
      <4>2. CASE g.spell
        <5>1. r.token = q.token \o s /\ h.text = Append(g.text, d)
          BY <1>0, <1>6, <2>4, <2>5, <3>1, <4>1, <4>2, KeepsKeys DEF Spelled, d
        <5>2. CASE s = <<d>>
          <6>1. q.token \o s = Append(q.token, d)
            BY <2>3, <5>2, KeepsKeys
          <6> QED
            BY <2>3, <4>1, <5>1, <6>1, KeepsKeys, SpellingGrowsByOne
        <5>3. CASE d = CodePoint /\ s # <<>> /\ s[1] = CodePoint
          BY <2>2, <5>1, <5>3, KeepsKeys, PointShows
        <5> QED
          BY <2>3, <5>2, <5>3
      <4>3. CASE ~g.spell
        <5>1. r.token = q.token /\ h.text = g.text
          BY <1>0, <1>6, <2>4, <2>5, <3>1, <4>1, <4>3, KeepsKeys DEF Spelled
        <5> QED
          BY <4>1, <5>1
      <4> QED
        BY <4>2, <4>3
    <3>2. h.key = r.isKey /\ ~h.high /\ r.high = 0
      BY <1>0, <1>1, <1>6, <2>4 DEF Same
    <3> QED
      BY <3>1, <3>2 DEF Spelling
  <2>6. Agrees(r, h)
    BY <1>0, <2>4, <2>5, ReadsAgrees
  <2> QED
    BY <2>6 DEF r
<1> QED
  BY <1>3, <1>4, <1>5, <1>6

\* A key ends: t is what the parser looks up.
LEMMA KeyAgrees ==
  ASSUME NEW q, Sound(q), NEW g, Reads(q, g), q.isKey, NEW t,
         NEW h, Within(g, h), h.ctl = "colon", h.paired => SameSpelling(t, h.text)
  PROVE  Agrees(DeliverKey([q EXCEPT !.lex = "none"], t), h)
<1> DEFINE e == [q EXCEPT !.lex = "none"]
           r == DeliverKey(e, t)
<1>1. /\ q \in Parser /\ Ok(q) /\ Flags(q) /\ q.lex = "string" /\ g.stack = Kinds(q)
      /\ g.spell = ~q.validate
  BY DEF Reads
<1>2. q.frames # <<>> /\ Top(q).kind = "object" /\ q.started /\ ~q.finished
  BY <1>1 DEF Flags
<1>3. Between(e)
  BY ClosedSound
<1>4. /\ e.frames = q.frames /\ e.started = q.started /\ e.finished = q.finished
      /\ e.code = q.code /\ e.validate = q.validate
  BY <1>1 DEF Parser
<1> HIDE DEF e
<1>5. Inside(e)
  BY <1>1, <1>2, <1>3, <1>4 DEF Inside, Ok
<1>6. Kinds(e) = Kinds(q) /\ Top(e) = Top(q)
  BY <1>4 DEF Kinds, Top
<1> DEFINE z == Top(e).comma
<1>7. Moves(e, r, "colon", z) /\ (Top(r).map => Top(r).field = FieldOf(t))
  BY <1>5, DeliverKeyFacts
<1> HIDE DEF r, z
<1>8. Top(r).kind = "object" /\ Top(r).state = "colon"
  BY <1>2, <1>6, <1>7 DEF Moves
<1>9. Fitting(Top(r)) /\ Expects(Top(r)) = "colon"
  BY <1>8 DEF Fitting, Expects
<1>10. h \in Automaton /\ h.stack = Kinds(e) /\ h.spell = ~e.validate /\ h.ctl = Expects(Top(r))
  BY <1>1, <1>4, <1>6, <1>9 DEF Within
<1>11. h.paired => FieldOf(t) = FieldOf(h.text)
  BY SameField
<1>12. Top(r).map /\ "colon" \in {"colon", "value"} /\ h.paired => Top(r).field = FieldOf(h.text)
  BY <1>7, <1>11
<1>13. Agrees(r, h)
  BY <1>7, <1>9, <1>10, <1>12, MoveAgrees
<1> QED
  BY <1>13 DEF r, e

\* The closing quote.
LEMMA QuoteAgrees ==
  ASSUME NEW q, Sound(q), NEW g, Reads(q, g), NEW h, Quoted(g, h)
  PROVE  Agrees(EndString(q), h)
<1> DEFINE e == [q EXCEPT !.lex = "none"]
<1>1. /\ q \in Parser /\ Ok(q) /\ Flags(q) /\ q.lex = "string" /\ g.stack = Kinds(q)
      /\ g.spell = ~q.validate /\ g.key = q.isKey
      /\ g.high => q.high # 0
      /\ g.paired /\ q.high # 0 => g.high
      /\ q.isKey /\ g.paired => SameSpelling(q.token, g.text)
  BY DEF Reads, Spelling
<1>2. /\ Within(g, h) /\ h.ctl = (IF g.key THEN "colon" ELSE After(g.stack))
      /\ h.paired <=> g.paired /\ ~g.high
      /\ h.paired => h.text = g.text
  BY DEF Quoted
<1>3. h \in Automaton /\ h.spell = ~q.validate /\ h.stack = Kinds(q)
  BY <1>1, <1>2 DEF Within
<1>4. CASE q.high # 0
  <2>1. EndString(q) = Fail(q, "INVALID_JSON") /\ ~h.paired
    BY <1>1, <1>2, <1>4 DEF EndString
  <2> QED
    BY <1>1, <1>3, <2>1, FailAgrees
<1>5. CASE q.high = 0 /\ q.isKey
  <2>1. e.isKey /\ e.token = q.token
    BY <1>1, <1>5 DEF Parser
  <2>2. EndString(q) = DeliverKey(e, q.token)
    BY <1>5, <2>1 DEF EndString, DeliverToken
  <2>3. h.paired => SameSpelling(q.token, h.text)
    BY <1>1, <1>2, <1>5
  <2> QED
    BY <1>1, <1>2, <1>5, <2>2, <2>3, KeyAgrees
<1>6. CASE q.high = 0 /\ ~q.isKey
  <2>1. /\ e.frames = q.frames /\ e.started = q.started /\ e.finished = q.finished
        /\ e.code = q.code /\ e.validate = q.validate /\ e.isKey = q.isKey
    BY <1>1 DEF Parser
  <2>2. EndString(q) = DeliverToken(e, "string")
    BY <1>6 DEF EndString
  <2>3. Between(e)
    BY ClosedSound
  <2> HIDE DEF e
  <2>4. Waiting(e)
    BY <1>1, <1>6, <2>1, <2>3 DEF Waiting, Flags, Ok
  <2>5. Kinds(e) = Kinds(q)
    BY <2>1 DEF Kinds
  <2> DEFINE r == DeliverToken(e, "string")
  <2>6. /\ r.validate = e.validate
        /\ Ok(r) => Settled(r, Kinds(e))
        /\ "string" # "number" => r.code # "INVALID_JSON"
    BY <2>4, DeliverValueFacts
  <2> HIDE DEF r
  <2>7. Completes(q, r, Kinds(q))
    BY <2>1, <2>5, <2>6 DEF Completes
  <2>8. h.ctl = After(Kinds(q))
    BY <1>1, <1>2, <1>6
  <2>9. Agrees(r, h)
    BY <1>3, <2>7, <2>8, CloseAgrees
  <2> QED
    BY <2>2, <2>9 DEF r
<1> QED
  BY <1>4, <1>5, <1>6

-----------------------------------------------------------------------------
(***************************************************************************)
(* The inductive invariant: the automaton goes with the parser.            *)
(***************************************************************************)

\* A number that has ended is followed by a byte that ended it.
Ended(q, g, rest) ==
  Ok(q) /\ q.lex = "none" /\ g.ctl \in NumberEnds =>
    \/ rest # <<>> /\ Head(rest) \notin NumberBytes
    \/ StopAtRoot /\ RootComplete(q)

Following ==
  /\ p.failed <=> ~Ok(p)
  /\ chunk # <<>> => Ok(p)
  /\ Agrees(p, ref)
  /\ Ended(p, ref, chunk)

Judged ==
  /\ result \in {"OK", "TRUNCATED"} => Complete(ref)
  /\ result = "INVALID_JSON" => ~Complete(ref) \/ ~ref.paired
  /\ Ok(p) => Complete(ref)
  /\ p.failed => Refused(p, ref)

GrammarInv ==
  /\ ref \in Automaton /\ ref.spell = ~p.validate
  /\ result = "open" => Following
  /\ result # "open" => Judged
  /\ StopAtRoot /\ ref.spell => ~ref.past

LEMMA FailedFlag ==
  ASSUME NEW q \in Parser, NEW b, NEW g, Agrees(q, g)
  PROVE  Agrees([q EXCEPT !.failed = b], g)
<1> DEFINE r == [q EXCEPT !.failed = b]
<1>1. /\ r.validate = q.validate /\ r.frames = q.frames /\ r.started = q.started
      /\ r.finished = q.finished /\ r.code = q.code /\ r.lex = q.lex /\ r.isKey = q.isKey
      /\ r.capture = q.capture /\ r.token = q.token /\ r.escape = q.escape
      /\ r.need = q.need /\ r.acc = q.acc /\ r.high = q.high
  BY DEF Parser
<1> HIDE DEF r
<1>2. Kinds(r) = Kinds(q) /\ Top(r) = Top(q)
  BY <1>1 DEF Kinds, Top
<1>3. Place(r) = Place(q)
  BY <1>1, <1>2 DEF Place
<1>4. Flags(r) <=> Flags(q)
  BY <1>1, <1>2 DEF Flags
<1>5. InNone(r, g) <=> InNone(q, g)
  BY <1>1, <1>2, <1>3 DEF InNone
<1>6. InText(r, g) <=> InText(q, g)
  BY <1>1 DEF InText, Spelling
<1>7. InNumber(r, g) <=> InNumber(q, g)
  BY <1>1 DEF InNumber
<1>8. InLiteral(r, g) <=> InLiteral(q, g)
  BY <1>1 DEF InLiteral
<1>9. Follows(r, g) <=> Follows(q, g)
  BY <1>1, <1>2, <1>4, <1>5, <1>6, <1>7, <1>8 DEF Follows
<1> QED
  BY <1>1, <1>9 DEF Agrees, Refused, Ok, r

LEMMA RestFacts ==
  ASSUME NEW s \in Seq(Marks), NEW n \in Nat, n < Len(s)
  PROVE  SubSeq(s, n + 1, Len(s)) # <<>> /\ Head(SubSeq(s, n + 1, Len(s))) = s[n + 1]
<1> DEFINE m == Len(s)
           t == SubSeq(s, n + 1, m)
<1>1. m \in Nat /\ n + 1 \in 1..m
  OBVIOUS
<1>2. t \in Seq(Marks) /\ Len(t) = m - n /\ \A i \in 1..(m - n) : t[i] = s[n + i]
  BY <1>1
<1>3. Len(t) >= 1 /\ t[1] = s[n + 1]
  BY <1>1, <1>2
<1> HIDE DEF t, m
<1>4. t # <<>> /\ Head(t) = t[1]
  BY <1>2, <1>3
<1> QED
  BY <1>3, <1>4 DEF t, m

LEMMA FirstFacts ==
  ASSUME NEW s \in Seq(Marks), Len(s) >= 1
  PROVE  Head(s) = s[1] /\ SubSeq(s, 1, 1) = <<s[1]>>
<1> DEFINE t == SubSeq(s, 1, 1)
<1>1. t \in Seq(Marks) /\ Len(t) = 1 /\ t[1] = s[1]
  OBVIOUS
<1> HIDE DEF t
<1>2. t = <<s[1]>>
  BY <1>1
<1> QED
  BY <1>2 DEF t

\* One iteration of the loop, whatever it reads.
LEMMA ConsumeSim ==
  ASSUME ParserInv, GrammarInv, result = "open", NEW n \in Nat, n <= Len(chunk),
         NEW q \in Parser, Consume(q, n), q.validate = p.validate,
         NEW h, h = GrammarRun(ref, SubSeq(chunk, 1, n)), Agrees(q, h),
         Ok(q) /\ q.lex = "none" /\ h.ctl \in NumberEnds =>
           n < Len(chunk) /\ chunk[n + 1] \notin NumberBytes,
         StopAtRoot /\ ref.spell => h.past = ref.past
  PROVE  GrammarInv'
<1> DEFINE r == [q EXCEPT !.failed = ~Ok(q)]
           rest == SubSeq(chunk, n + 1, Len(chunk))
<1>1. /\ p' = r /\ ref' = h /\ result' = "open"
      /\ chunk' = IF Ok(q) THEN rest ELSE <<>>
  BY DEF Consume
<1>2. r.failed = ~Ok(q) /\ r.code = q.code /\ r.lex = q.lex /\ r.validate = q.validate
  BY DEF Parser
<1>3. Agrees(r, h)
  BY FailedFlag
<1>4. chunk \in Seq(Marks) /\ Len(chunk) \in Nat
  BY DEF ParserInv
<1>5. n < Len(chunk) => rest # <<>> /\ Head(rest) = chunk[n + 1]
  BY <1>4, RestFacts
<1> HIDE DEF r, rest
<1>6. Ok(r) <=> Ok(q)
  BY <1>2 DEF Ok
<1>7. Ended(r, h, chunk')
  <2> SUFFICES ASSUME Ok(r), r.lex = "none", h.ctl \in NumberEnds
               PROVE  chunk' # <<>> /\ Head(chunk') \notin NumberBytes
    BY DEF Ended
  <2>1. n < Len(chunk) /\ chunk[n + 1] \notin NumberBytes
    BY <1>2, <1>6
  <2>2. chunk' = rest
    BY <1>1, <1>6
  <2> QED
    BY <1>5, <2>1, <2>2
<1>8. Following'
  BY <1>1, <1>2, <1>3, <1>6, <1>7 DEF Following
<1>9. h \in Automaton /\ h.spell = ~r.validate
  BY <1>3 DEF Agrees
<1>10. StopAtRoot /\ h.spell => ~h.past
  <2>1. h.spell = ref.spell
    BY <1>2, <1>9 DEF GrammarInv
  <2> QED
    BY <2>1 DEF GrammarInv
<1> QED
  BY <1>1, <1>8, <1>9, <1>10 DEF GrammarInv

\* What holds when the loop is at a byte.
LEMMA LoopingFollows ==
  ASSUME ParserInv, GrammarInv, Looping
  PROVE  /\ result = "open" /\ Ok(p) /\ Follows(p, ref) /\ Ended(p, ref, chunk)
         /\ ref \in Automaton /\ ref.spell = ~p.validate /\ Flags(p)
         /\ chunk \in Seq(Marks) /\ Len(chunk) \in Nat /\ Len(chunk) >= 1
         /\ byte \in Marks /\ byte = chunk[1] /\ SubSeq(chunk, 1, 1) = <<byte>>
         /\ GrammarRun(ref, SubSeq(chunk, 1, 1)) = GrammarStep(ref, byte)
         /\ Sound(p) /\ p \in Parser
<1>1. /\ chunk \in Seq(Marks) /\ Len(chunk) >= 1 /\ byte \in Marks /\ Sound(p) /\ p \in Parser
  BY LoopingByte
<1>2. result = "open" /\ chunk # <<>>
  BY DEF Looping
<1>3. Ok(p) /\ Agrees(p, ref) /\ Ended(p, ref, chunk)
  BY <1>2 DEF GrammarInv, Following
<1>4. byte = chunk[1] /\ SubSeq(chunk, 1, 1) = <<byte>>
  BY <1>1, FirstFacts DEF byte
<1>5. GrammarRun(ref, SubSeq(chunk, 1, 1)) = GrammarStep(ref, byte)
  BY <1>1, <1>4, RunOne
<1> QED
  BY <1>1, <1>2, <1>3, <1>4, <1>5 DEF GrammarInv, Agrees, Follows

LEMMA TextFollows ==
  ASSUME ParserInv, GrammarInv, Looping, p.lex = "string"
  PROVE  /\ InText(p, ref) /\ ref.stack = Kinds(p)
         /\ p.need = 0 /\ ~p.escape => Reads(p, ref) /\ ref.ctl = "string"
<1>1. /\ Follows(p, ref) /\ Ok(p) /\ p \in Parser /\ ref \in Automaton /\ ref.spell = ~p.validate
      /\ Flags(p)
  BY LoopingFollows
<1>2. InText(p, ref)
  BY <1>1 DEF Follows
<1>3. ref.ctl # "dead" /\ ref.stack = Kinds(p)
  BY <1>1, <1>2 DEF InText, Follows
<1> QED
  BY <1>1, <1>2, <1>3 DEF Reads, InText

\* A step inside a string that the automaton survives or does not.
LEMMA TextSim ==
  ASSUME ParserInv, GrammarInv, Looping, p.lex = "string", NEW n \in Nat, n <= Len(chunk),
         NEW q, Sound(q), q.validate = p.validate, Consume(q, n),
         NEW h, h = GrammarRun(ref, SubSeq(chunk, 1, n)), Agrees(q, h), h.past = ref.past,
         h.ctl \notin NumberEnds
  PROVE  GrammarInv'
<1>1. result = "open" /\ q \in Parser
  BY DEF Looping, Sound
<1> QED
  BY <1>1, ConsumeSim

\* The first n bytes, and the byte after them.
LEMMA PrefixFacts ==
  ASSUME NEW s \in Seq(Marks), NEW n \in Nat, n < Len(s)
  PROVE  /\ SubSeq(s, 1, n + 1) = Append(SubSeq(s, 1, n), s[n + 1])
         /\ SubSeq(s, 1, n) \in Seq(Marks) /\ s[n + 1] \in Marks
<1>1. n + 1 \in 1..Len(s)
  OBVIOUS
<1> QED
  BY <1>1

LEMMA KeyInChunkSim ==
  ASSUME ParserInv, GrammarInv, KeyInChunk
  PROVE  GrammarInv'
<1> DEFINE n == PlainLength(chunk)
           s == SubSeq(chunk, 1, n)
           q == DeliverKey([p EXCEPT !.lex = "none"], s)
           e == GrammarRun(ref, s)
           h == GrammarStep(e, Quote)
<1>1. /\ Looping /\ p.lex = "string" /\ p.need = 0 /\ ~p.escape
      /\ p.isKey /\ p.capture = "token" /\ p.token = <<>> /\ n < Len(chunk)
      /\ chunk[n + 1] = Quote /\ Consume(q, n + 1)
  BY DEF KeyInChunk, InString, KeyAtOnce
<1>2. Reads(p, ref) /\ ref.ctl = "string" /\ chunk \in Seq(Marks) /\ Sound(p) /\ p \in Parser
      /\ ref \in Automaton
  BY <1>1, TextFollows, LoopingFollows
<1>3. n \in 0..Len(chunk) /\ \A i \in 1..n : chunk[i] \notin Special
  BY <1>2, PlainLengthFacts
<1>4. s \in Seq(Marks) /\ Len(s) = n /\ \A i \in 1..n : s[i] = chunk[i]
  BY <1>2, <1>3
<1>5. SubSeq(chunk, 1, n + 1) = Append(s, Quote) /\ Quote \in Marks
  <2>1. n \in Nat /\ Quote \in Marks
    BY <1>3 DEF Marks
  <2> HIDE DEF n
  <2>2. SubSeq(chunk, 1, n + 1) = Append(SubSeq(chunk, 1, n), chunk[n + 1])
    BY <1>1, <1>2, <2>1, PrefixFacts
  <2> QED
    BY <1>1, <2>1, <2>2
<1>6. GrammarRun(ref, SubSeq(chunk, 1, n + 1)) = h
  <2> HIDE DEF s
  <2>1. GrammarRun(ref, Append(s, Quote)) = GrammarStep(GrammarRun(ref, s), Quote)
    BY <1>4, <1>5, RunAppend
  <2> QED
    BY <1>5, <2>1
<1>7. ref.key /\ ref.spell /\ (ref.paired => ref.text = <<>>)
  <2>1. ref.key /\ ref.spell /\ (ref.paired => SameSpelling(<<>>, ref.text))
    BY <1>1, <1>2, KeepsKeys DEF Reads, Spelling
  <2>2. ~Shows(<<>>, CodePoint)
    BY DEF Shows
  <2> QED
    BY <2>1, <2>2 DEF SameSpelling
<1>8. /\ Within(ref, e) /\ e.ctl = "string"
      /\ e.paired /\ ~e.high => e.text = s
  <2>1. CASE n = 0
    <3>1. s = <<>>
      BY <1>4, <2>1
    <3>2. e = ref
      BY <3>1, RunNothing
    <3> QED
      BY <1>2, <1>7, <3>1, <3>2 DEF Within
  <2>2. CASE n # 0
    <3>1. s # <<>>
      BY <1>3, <1>4, <2>2
    <3>2. Extended(ref, e, s)
      BY <1>2, <1>3, <1>4, <3>1, PlainRunFacts
    <3>3. <<>> \o s = s
      BY <1>4
    <3> HIDE DEF e, s
    <3> QED
      BY <1>7, <3>2, <3>3 DEF Extended
  <2> QED
    BY <2>1, <2>2
<1>9. Quoted(e, h)
  BY <1>5, <1>8, StringByteFacts DEF Within
<1>11. p.validate = q.validate
  <2> DEFINE d == [p EXCEPT !.lex = "none"]
  <2>1. d.validate = p.validate /\ d \in Parser
    BY <1>2 DEF Parser, Modes
  <2> QED
    BY <2>1 DEF DeliverKey, SetTop, Parser
<1>12. Sound(q)
  <2>1. Between([p EXCEPT !.lex = "none"])
    BY <1>2, ClosedSound
  <2>2. Between(q)
    BY <2>1, DeliverKeySound
  <2> QED
    BY <2>2 DEF Between
<1>15. n + 1 \in Nat /\ n + 1 <= Len(chunk)
  BY <1>1, <1>2, <1>3
<1> HIDE DEF h, e, s, n
<1>10. Within(ref, h) /\ h.ctl = "colon" /\ (h.paired => h.text = s)
  BY <1>7, <1>8, <1>9 DEF Quoted, Within
<1>13. h.paired => SameSpelling(s, h.text)
  BY <1>10 DEF SameSpelling
<1>14. Agrees(q, h)
  BY <1>1, <1>2, <1>10, <1>13, KeyAgrees
<1> HIDE DEF q
<1>16. h.past = ref.past /\ h.ctl \notin NumberEnds
  BY <1>10 DEF Within, NumberEnds
<1> QED
  BY <1>1, <1>6, <1>11, <1>12, <1>14, <1>15, <1>16, TextSim

LEMMA PlainRunSim ==
  ASSUME ParserInv, GrammarInv, PlainRun
  PROVE  GrammarInv'
<1> DEFINE n == PlainLength(chunk)
           s == SubSeq(chunk, 1, n)
           q == AppendText(p, s)
           h == GrammarRun(ref, s)
<1>1. /\ Looping /\ p.lex = "string" /\ p.need = 0 /\ ~p.escape /\ n > 0 /\ Consume(q, n)
  BY DEF PlainRun, InString
<1>2. Reads(p, ref) /\ ref.ctl = "string" /\ chunk \in Seq(Marks) /\ Sound(p) /\ p \in Parser
      /\ ref \in Automaton /\ Ok(p)
  BY <1>1, TextFollows, LoopingFollows
<1>3. n \in 0..Len(chunk) /\ \A i \in 1..n : chunk[i] \notin Special
  BY <1>2, PlainLengthFacts
<1>4. s \in Seq(Marks) /\ Len(s) = n /\ \A i \in 1..n : s[i] = chunk[i]
  BY <1>2, <1>3
<1>5. s # <<>>
  BY <1>1, <1>3, <1>4
<1>6. Extended(ref, h, s)
  BY <1>2, <1>3, <1>4, <1>5, PlainRunFacts
<1>7. Agrees(q, h)
  BY <1>2, <1>4, <1>6, RunAgrees
<1>8. Sound(q) /\ q.validate = p.validate
  BY <1>2, <1>4, AppendTextSound, AppendTextFacts DEF Same
<1>9. n \in Nat /\ n <= Len(chunk)
  BY <1>2, <1>3
<1>10. h.past = ref.past /\ h.ctl \notin NumberEnds
  BY <1>6 DEF Extended, Within, NumberEnds
<1> HIDE DEF n, q
<1> QED
  BY <1>1, <1>7, <1>8, <1>9, <1>10, TextSim

LEMMA StringEndSim ==
  ASSUME ParserInv, GrammarInv, StringEnd
  PROVE  GrammarInv'
<1> DEFINE q == EndString(p)
           h == GrammarStep(ref, byte)
<1>1. /\ Looping /\ p.lex = "string" /\ p.need = 0 /\ ~p.escape /\ byte = Quote /\ Consume(q, 1)
  BY DEF StringEnd, InString
<1>2. /\ Reads(p, ref) /\ ref.ctl = "string" /\ Sound(p) /\ p \in Parser
      /\ ref \in Automaton /\ Ok(p) /\ Len(chunk) >= 1 /\ byte \in Marks
      /\ GrammarRun(ref, SubSeq(chunk, 1, 1)) = h
  BY <1>1, TextFollows, LoopingFollows
<1>3. Quoted(ref, h)
  BY <1>1, <1>2, StringByteFacts
<1>4. Agrees(q, h)
  BY <1>2, <1>3, QuoteAgrees
<1>5. Sound(q)
  BY <1>2, EndStringSound
<1> HIDE DEF h, q
<1>6. q.validate = p.validate
  <2>1. q.validate \in BOOLEAN /\ p.validate \in BOOLEAN
    BY <1>2, <1>5 DEF Sound, Parser
  <2>2. h.spell = ~q.validate /\ h.spell = ref.spell /\ ref.spell = ~p.validate
    BY <1>2, <1>3, <1>4 DEF Agrees, Quoted, Within, Reads
  <2> QED
    BY <2>1, <2>2
<1>7. h.past = ref.past /\ h.ctl \notin NumberEnds
  BY <1>3 DEF Quoted, Within, NumberEnds, After
<1> QED
  BY <1>1, <1>2, <1>4, <1>5, <1>6, <1>7, TextSim

\* A byte that no string holds.
LEMMA RefusedSim ==
  ASSUME ParserInv, GrammarInv, Looping, p.lex = "string",
         Consume(Fail(p, "INVALID_JSON"), 1), Died(ref, GrammarStep(ref, byte))
  PROVE  GrammarInv'
<1> DEFINE q == Fail(p, "INVALID_JSON")
           h == GrammarStep(ref, byte)
<1>1. /\ Sound(p) /\ p \in Parser /\ Len(chunk) >= 1 /\ ref.spell = ~p.validate
      /\ GrammarRun(ref, SubSeq(chunk, 1, 1)) = h
  BY LoopingFollows
<1>2. Sound(q) /\ q.validate = p.validate
  BY <1>1, FailSound, FailFacts DEF Codes
<1>3. h \in Automaton /\ h.ctl = "dead" /\ h.spell = ref.spell /\ h.past = ref.past
  BY DEF Died
<1>4. Agrees(q, h)
  BY <1>1, <1>3, FailAgrees
<1>5. h.ctl \notin NumberEnds
  BY <1>3 DEF NumberEnds
<1> HIDE DEF h
<1> QED
  BY <1>1, <1>2, <1>3, <1>4, <1>5, TextSim

LEMMA ControlInStringSim ==
  ASSUME ParserInv, GrammarInv, ControlInString
  PROVE  GrammarInv'
<1>1. /\ Looping /\ p.lex = "string" /\ p.need = 0 /\ ~p.escape /\ byte \in Controls
      /\ Consume(Fail(p, "INVALID_JSON"), 1)
  BY DEF ControlInString, InString
<1>2. ref.ctl = "string" /\ ref \in Automaton /\ byte \in Marks
  BY <1>1, TextFollows, LoopingFollows
<1>3. Died(ref, GrammarStep(ref, byte))
  BY <1>1, <1>2, StringByteFacts
<1> QED
  BY <1>1, <1>3, RefusedSim

\* The backslash.
LEMMA BackslashFacts ==
  ASSUME NEW g \in Automaton, g.ctl = "string"
  PROVE  Moved(g, GrammarStep(g, Backslash), "escape")
<1>1. Backslash \in Marks
  BY DEF Marks
<1> QED
  BY <1>1, StringByteFacts

LEMMA SimpleEscapeSim ==
  ASSUME ParserInv, GrammarInv, SimpleEscape
  PROVE  GrammarInv'
<1> DEFINE c == chunk[2]
           sym == Unescape(c)
           q == AppendByte(p, sym)
           e == GrammarStep(ref, Backslash)
           h == GrammarStep(e, c)
<1>1. /\ Looping /\ p.lex = "string" /\ p.need = 0 /\ ~p.escape /\ byte = Backslash
      /\ Len(chunk) >= 2 /\ c \in SimpleEscapes /\ Consume(q, 2)
  BY DEF SimpleEscape, InString, SimpleFast
<1>2. /\ Reads(p, ref) /\ ref.ctl = "string" /\ Sound(p) /\ p \in Parser
      /\ ref \in Automaton /\ Ok(p) /\ chunk \in Seq(Marks) /\ byte = chunk[1]
  BY <1>1, TextFollows, LoopingFollows
<1>3. /\ SubSeq(chunk, 1, 2) = Append(<<Backslash>>, c) /\ c \in Marks /\ Backslash \in Marks
  BY <1>1, <1>2 DEF Marks
<1>4. GrammarRun(ref, SubSeq(chunk, 1, 2)) = h
  <2>1. GrammarRun(ref, <<Backslash>>) = e
    BY <1>3, RunOne
  <2>2. <<Backslash>> \in Seq(Marks)
    BY <1>3
  <2> HIDE DEF c, e
  <2>3. GrammarRun(ref, Append(<<Backslash>>, c)) = GrammarStep(GrammarRun(ref, <<Backslash>>), c)
    BY <1>3, <2>2, RunAppend
  <2> QED
    BY <1>3, <2>1, <2>3
<1>5. Moved(ref, e, "escape")
  BY <1>2, BackslashFacts
<1> HIDE DEF c, e, sym
<1>6. Took(e, h, sym) /\ sym \in Marks
  BY <1>1, <1>3, <1>5, EscapeByteFacts, UnescapeType DEF Moved, Within, sym
<1> HIDE DEF h
<1>7. Took(ref, h, sym)
  BY <1>5, <1>6 DEF Took, Moved, Within, Spelled
<1>8. Agrees(q, h)
  BY <1>2, <1>6, <1>7, SymbolAgrees
<1>9. Sound(q) /\ q.validate = p.validate
  BY <1>2, <1>6, AppendByteSound, AppendByteFacts DEF Same
<1>10. h.past = ref.past /\ h.ctl \notin NumberEnds
  BY <1>7 DEF Took, Within, NumberEnds
<1> HIDE DEF q
<1> QED
  BY <1>1, <1>4, <1>8, <1>9, <1>10, TextSim

\* consume_unicode_escape_fast on one escape.
LEMMA QuadAgrees ==
  ASSUME NEW q, Sound(q), NEW g, Reads(q, g), NEW s \in Seq(Marks), Len(s) = 6,
         g.ctl = "string", s[1] = Backslash, s[2] = "u", IsQuad(s, 3)
  PROVE  LET r == AcceptCodePoint(q, Quad(s, 3))
             h == GrammarRun(g, s) IN
         /\ Agrees(r, h) /\ Sound(r) /\ Within(g, h) /\ h.ctl = "string"
         /\ r.validate = q.validate
<1> DEFINE cp == Quad(s, 3)
           r == AcceptCodePoint(q, cp)
           h == GrammarRun(g, s)
<1>1. cp \in Nat
  BY QuadType
<1>2. g \in Automaton /\ g.spell = ~q.validate /\ q \in Parser
  BY DEF Reads
<1>3. Pointed(g, h, cp)
  BY <1>2, QuadFacts
<1> HIDE DEF h, cp
<1>4. Agrees(r, h)
  BY <1>1, <1>3, PointAgrees
<1>5. Sound(r)
  BY <1>1, AcceptCodePointSound
<1> HIDE DEF r
<1>6. Within(g, h) /\ h.ctl = "string"
  BY <1>3 DEF Pointed
<1>7. r.validate = q.validate
  <2>1. q.validate \in BOOLEAN /\ r.validate \in BOOLEAN
    BY <1>2, <1>5 DEF Sound, Parser
  <2>2. h.spell = ~r.validate /\ h.spell = g.spell
    BY <1>4, <1>6 DEF Agrees, Within
  <2> QED
    BY <1>2, <2>1, <2>2
<1> QED
  BY <1>4, <1>5, <1>6, <1>7 DEF r, h, cp

\* Twelve bytes as two escapes.
LEMMA TwelveFacts ==
  ASSUME NEW s \in Seq(Marks), Len(s) >= 12
  PROVE  LET a == SubSeq(s, 1, 6)
             b == SubSeq(s, 7, 12) IN
         /\ a \in Seq(Marks) /\ b \in Seq(Marks) /\ Len(b) = 6 /\ SubSeq(s, 1, 12) = a \o b
         /\ b[1] = s[7] /\ b[2] = s[8]
         /\ IsQuad(b, 3) <=> IsQuad(s, 9)
         /\ Quad(b, 3) = Quad(s, 9)
<1> DEFINE a == SubSeq(s, 1, 6)
           b == SubSeq(s, 7, 12)
<1>1. /\ a \in Seq(Marks) /\ b \in Seq(Marks) /\ Len(b) = 6 /\ Len(a) = 6
      /\ \A i \in 1..6 : a[i] = s[i] /\ b[i] = s[6 + i]
  OBVIOUS
<1>2. SubSeq(s, 1, 12) = a \o b
  OBVIOUS
<1>3. b[1] = s[7] /\ b[2] = s[8] /\ b[3] = s[9] /\ b[4] = s[10] /\ b[5] = s[11] /\ b[6] = s[12]
  BY <1>1
<1>4. IsQuad(b, 3) <=> IsQuad(s, 9)
  <2>1. IsQuad(b, 3) <=> \A k \in 3..6 : b[k] \in HexDigits
    BY <1>1 DEF IsQuad
  <2>2. IsQuad(s, 9) <=> \A k \in 9..12 : s[k] \in HexDigits
    BY DEF IsQuad
  <2>3. \A k \in 3..6 : b[k] = s[k + 6] /\ k + 6 \in 9..12
    BY <1>1
  <2>4. \A k \in 9..12 : k - 6 \in 3..6 /\ s[k] = b[k - 6]
    BY <1>1
  <2> HIDE DEF b
  <2> QED
    BY <2>1, <2>2, <2>3, <2>4
<1>5. Quad(b, 3) = Quad(s, 9)
  BY <1>3 DEF Quad
<1> QED
  BY <1>1, <1>2, <1>3, <1>4, <1>5

LEMMA SixFacts ==
  ASSUME NEW s \in Seq(Marks), Len(s) >= 6
  PROVE  LET a == SubSeq(s, 1, 6) IN
         /\ a \in Seq(Marks) /\ Len(a) = 6
         /\ a[1] = s[1] /\ a[2] = s[2]
         /\ IsQuad(a, 3) <=> IsQuad(s, 3)
         /\ Quad(a, 3) = Quad(s, 3)
<1> DEFINE a == SubSeq(s, 1, 6)
<1>1. a \in Seq(Marks) /\ Len(a) = 6 /\ \A i \in 1..6 : a[i] = s[i]
  OBVIOUS
<1>3. a[1] = s[1] /\ a[2] = s[2] /\ a[3] = s[3] /\ a[4] = s[4] /\ a[5] = s[5] /\ a[6] = s[6]
  BY <1>1
<1>4. IsQuad(a, 3) <=> IsQuad(s, 3)
  BY <1>1 DEF IsQuad
<1>5. Quad(a, 3) = Quad(s, 3)
  BY <1>3 DEF Quad
<1> QED
  BY <1>1, <1>3, <1>4, <1>5

LEMMA UnicodeEscapeSim ==
  ASSUME ParserInv, GrammarInv, UnicodeEscape
  PROVE  GrammarInv'
<1> DEFINE a == SubSeq(chunk, 1, 6)
           b == SubSeq(chunk, 7, 12)
           cp == Quad(chunk, 3)
           q == AcceptCodePoint(p, cp)
           e == GrammarRun(ref, a)
<1>1. /\ Looping /\ p.lex = "string" /\ p.need = 0 /\ ~p.escape /\ byte = Backslash
      /\ Len(chunk) >= 6 /\ chunk[2] = "u" /\ IsQuad(chunk, 3)
  BY DEF UnicodeEscape, InString, UnicodeFast
<1>2. /\ Reads(p, ref) /\ ref.ctl = "string" /\ Sound(p) /\ p \in Parser
      /\ ref \in Automaton /\ Ok(p) /\ chunk \in Seq(Marks) /\ byte = chunk[1]
  BY <1>1, TextFollows, LoopingFollows
<1>3. /\ a \in Seq(Marks) /\ Len(a) = 6 /\ a[1] = Backslash /\ a[2] = "u"
      /\ IsQuad(a, 3) /\ Quad(a, 3) = cp
  BY <1>1, <1>2, SixFacts
<1>4. /\ Agrees(q, e) /\ Sound(q) /\ Within(ref, e) /\ e.ctl = "string"
      /\ q.validate = p.validate
  <2> HIDE DEF a, cp
  <2>1. /\ Agrees(AcceptCodePoint(p, Quad(a, 3)), GrammarRun(ref, a))
        /\ Sound(AcceptCodePoint(p, Quad(a, 3)))
        /\ Within(ref, GrammarRun(ref, a)) /\ GrammarRun(ref, a).ctl = "string"
        /\ AcceptCodePoint(p, Quad(a, 3)).validate = p.validate
    BY <1>2, <1>3, QuadAgrees
  <2> QED
    BY <1>3, <2>1
<1>5. CASE ~(p.high = 0 /\ IsHigh(cp))
  <2>1. Consume(q, 6)
    BY <1>5 DEF UnicodeEscape
  <2>2. e.past = ref.past /\ e.ctl \notin NumberEnds
    BY <1>4 DEF Within, NumberEnds
  <2> HIDE DEF q
  <2> QED
    BY <1>1, <1>4, <2>1, <2>2, TextSim
<1>6. CASE p.high = 0 /\ IsHigh(cp)
  <2>0. /\ Len(chunk) >= 12 /\ chunk[7] = Backslash /\ chunk[8] = "u" /\ IsQuad(chunk, 9)
    BY <1>6 DEF UnicodeEscape, UnicodeFast, PairFollows
  <2> DEFINE r == AcceptCodePoint(q, Quad(chunk, 9))
             h == GrammarRun(e, b)
  <2>1. Consume(r, 12)
    BY <1>6 DEF UnicodeEscape
  <2>2. /\ b \in Seq(Marks) /\ Len(b) = 6 /\ SubSeq(chunk, 1, 12) = a \o b
        /\ b[1] = Backslash /\ b[2] = "u" /\ IsQuad(b, 3) /\ Quad(b, 3) = Quad(chunk, 9)
    BY <1>2, <2>0, TwelveFacts
  <2>3. GrammarRun(ref, SubSeq(chunk, 1, 12)) = h
    <3> HIDE DEF a, b
    <3>1. GrammarRun(ref, a \o b) = GrammarRun(GrammarRun(ref, a), b)
      BY <1>3, <2>2, RunConcat
    <3> QED
      BY <2>2, <3>1
  <2>4. q = [p EXCEPT !.high = cp]
    <3>1. cp \in Nat
      BY <1>1, <1>2, QuadType
    <3>2. ~IsLow(cp)
      BY <1>6, <3>1, HighOrLow
    <3> HIDE DEF cp
    <3> QED
      BY <1>6, <3>2 DEF AcceptCodePoint
  <2>5. Ok(q) /\ q.lex = "string" /\ q.need = 0 /\ ~q.escape
    BY <1>1, <1>2, <2>4 DEF Parser, Ok
  <2> HIDE DEF q, e
  <2>6. Reads(q, e)
    <3>1. Follows(q, e) /\ q \in Parser
      BY <1>4, <2>5 DEF Agrees, Sound
    <3>2. Flags(q) /\ InText(q, e) /\ e.stack = Kinds(q) /\ e.spell = ~q.validate
      BY <1>4, <2>5, <3>1 DEF Follows
    <3> QED
      BY <1>4, <2>5, <3>1, <3>2 DEF Reads, InText, Within
  <2>7. /\ Agrees(r, h) /\ Sound(r) /\ Within(e, h) /\ h.ctl = "string"
        /\ r.validate = q.validate
    <3> HIDE DEF b
    <3>1. /\ Agrees(AcceptCodePoint(q, Quad(b, 3)), GrammarRun(e, b))
          /\ Sound(AcceptCodePoint(q, Quad(b, 3)))
          /\ Within(e, GrammarRun(e, b)) /\ GrammarRun(e, b).ctl = "string"
          /\ AcceptCodePoint(q, Quad(b, 3)).validate = q.validate
      BY <1>4, <2>2, <2>6, QuadAgrees
    <3> QED
      BY <2>2, <3>1
  <2> HIDE DEF r, h
  <2>8. h.past = ref.past /\ h.ctl \notin NumberEnds /\ r.validate = p.validate
    BY <1>4, <2>7 DEF Within, NumberEnds
  <2> QED
    BY <1>1, <2>0, <2>1, <2>3, <2>7, <2>8, TextSim
<1> QED
  BY <1>5, <1>6

\* A step of one byte that leaves the escape open.
LEMMA OpenEscapeSim ==
  ASSUME ParserInv, GrammarInv, Looping, p.lex = "string",
         NEW q, Sound(q), Ok(q), Same(p, q), Consume(q, 1), NEW ctl \in {"escape", "hex"},
         Moved(ref, GrammarStep(ref, byte), ctl), q.token = p.token, q.high = p.high,
         InText(q, GrammarStep(ref, byte)) <=> Spelling(q, GrammarStep(ref, byte))
  PROVE  GrammarInv'
<1> DEFINE h == GrammarStep(ref, byte)
<1>1. /\ InText(p, ref) /\ ref.stack = Kinds(p) /\ Flags(p) /\ ref.spell = ~p.validate
      /\ Len(chunk) >= 1 /\ GrammarRun(ref, SubSeq(chunk, 1, 1)) = h
  BY TextFollows, LoopingFollows
<1> HIDE DEF h
<1>2. Within(ref, h) /\ h.ctl = ctl /\ h.high = ref.high /\ h.paired = ref.paired
      /\ h.text = ref.text
  BY DEF Moved, h
<1>3. Spelling(q, h)
  BY <1>1, <1>2 DEF InText, Spelling, Within, Same
<1>4. InText(q, h)
  BY <1>3 DEF h
<1>5. q.code # "INVALID_JSON"
  BY DEF Ok
<1>6. Agrees(q, h)
  BY <1>1, <1>2, <1>4, <1>5, TextAgrees
<1>7. h.past = ref.past /\ h.ctl \notin NumberEnds /\ q.validate = p.validate
  BY <1>2 DEF Within, NumberEnds, Same
<1> QED
  BY <1>1, <1>6, <1>7, TextSim

LEMMA EscapeOpensSim ==
  ASSUME ParserInv, GrammarInv, EscapeOpens
  PROVE  GrammarInv'
<1> DEFINE q == [p EXCEPT !.escape = TRUE]
           h == GrammarStep(ref, byte)
<1>1. /\ Looping /\ p.lex = "string" /\ p.need = 0 /\ ~p.escape /\ byte = Backslash
      /\ Consume(q, 1)
  BY DEF EscapeOpens, InString
<1>2. /\ ref.ctl = "string" /\ ref \in Automaton /\ Sound(p) /\ p \in Parser /\ Ok(p)
  BY <1>1, TextFollows, LoopingFollows
<1>3. Moved(ref, h, "escape")
  BY <1>1, <1>2, BackslashFacts
<1>4. /\ q \in Parser /\ Same(p, q) /\ q.token = p.token /\ q.high = p.high /\ q.code = p.code
      /\ q.need = 0 /\ q.escape = TRUE /\ q.frames = p.frames /\ q.count = p.count
  BY <1>1, <1>2 DEF Parser, Same
<1> HIDE DEF q, h
<1>5. Sound(q)
  BY <1>2, <1>4, EscapeSound DEF Same
<1>6. InText(q, h) <=> Spelling(q, h)
  BY <1>3, <1>4 DEF InText, Moved
<1>7. Ok(q)
  BY <1>2, <1>4 DEF Ok
<1> QED
  BY <1>1, <1>3, <1>4, <1>5, <1>6, <1>7, OpenEscapeSim DEF h

LEMMA EscapedByteSim ==
  ASSUME ParserInv, GrammarInv, EscapedByte
  PROVE  GrammarInv'
<1> DEFINE q == [p EXCEPT !.escape = FALSE]
           h == GrammarStep(ref, byte)
<1>1. Looping /\ p.lex = "string" /\ p.need = 0 /\ p.escape
  BY DEF EscapedByte
<1>2. /\ InText(p, ref) /\ ref \in Automaton /\ Sound(p) /\ p \in Parser /\ Ok(p)
      /\ byte \in Marks /\ Flags(p) /\ ref.spell = ~p.validate /\ ref.stack = Kinds(p)
      /\ Len(chunk) >= 1 /\ GrammarRun(ref, SubSeq(chunk, 1, 1)) = h
  BY <1>1, TextFollows, LoopingFollows
<1>3. ref.ctl = "escape"
  BY <1>1, <1>2 DEF InText
<1>4. /\ byte = "u" => Moved(ref, h, "hex") /\ h.left = 4 /\ h.cp = 0
      /\ byte \in SimpleEscapes => Took(ref, h, Unescape(byte))
      /\ byte # "u" /\ byte \notin SimpleEscapes => Died(ref, h)
  BY <1>2, <1>3, EscapeByteFacts
<1>5. /\ q \in Parser /\ Same(p, q) /\ q.token = p.token /\ q.high = p.high /\ q.code = p.code
      /\ q.need = 0 /\ ~q.escape /\ q.frames = p.frames /\ q.count = p.count
  BY <1>1, <1>2 DEF Parser, Same
<1> HIDE DEF q
<1>6. Sound(q)
  BY <1>2, <1>5, EscapeSound DEF Same
<1>7. "u" \notin SimpleEscapes
  BY DEF SimpleEscapes, Quote, Backslash
<1>8. CASE byte = "u"
  <2> DEFINE r == [q EXCEPT !.need = 4, !.acc = 0]
  <2>1. Consume(r, 1)
    BY <1>7, <1>8 DEF EscapedByte, q
  <2>2. /\ r \in Parser /\ Same(q, r) /\ r.token = q.token /\ r.high = q.high /\ r.code = q.code
        /\ r.need = 4 /\ r.acc = 0 /\ ~r.escape /\ r.frames = q.frames /\ r.count = q.count
    BY <1>5 DEF Parser, Same
  <2> HIDE DEF r, h
  <2>3. Sound(r)
    BY <1>6, <2>2, EscapeSound DEF Same
  <2>4. Same(p, r) /\ r.token = p.token /\ r.high = p.high /\ Ok(r)
    BY <1>2, <1>5, <2>2 DEF Same, Ok
  <2>5. InText(r, h) <=> Spelling(r, h)
    BY <1>4, <1>8, <2>2 DEF InText, Moved
  <2> QED
    BY <1>1, <1>4, <1>8, <2>1, <2>3, <2>4, <2>5, OpenEscapeSim DEF h
<1>9. CASE byte \in SimpleEscapes
  <2> DEFINE r == AppendByte(q, Unescape(byte))
  <2>1. Consume(r, 1)
    BY <1>7, <1>9 DEF EscapedByte, q
  <2> HIDE DEF h
  <2>2. Reads(q, ref)
    <3>1. Flags(q) /\ Kinds(q) = Kinds(p) /\ q.lex = "string" /\ Ok(q)
      BY <1>1, <1>2, <1>5 DEF Same, Flags, Kinds, Top, Ok
    <3>2. Spelling(q, ref)
      BY <1>2, <1>5 DEF InText, Spelling, Same
    <3>3. ref.spell = ~q.validate
      BY <1>2, <1>5 DEF Same
    <3> QED
      BY <1>2, <1>5, <3>1, <3>2, <3>3 DEF Reads
  <2>3. Unescape(byte) \in Marks
    BY UnescapeType
  <2>4. Took(ref, h, Unescape(byte))
    BY <1>4, <1>9
  <2>5. Agrees(r, h)
    BY <2>2, <2>3, <2>4, SymbolAgrees
  <2>6. Sound(r) /\ r.validate = p.validate
    BY <1>5, <1>6, <2>2, <2>3, AppendByteSound, AppendByteFacts DEF Same, Reads
  <2>7. h.past = ref.past /\ h.ctl \notin NumberEnds
    BY <2>4 DEF Took, Within, NumberEnds
  <2> HIDE DEF r
  <2> QED
    BY <1>1, <1>2, <2>1, <2>5, <2>6, <2>7, TextSim
<1>10. CASE byte # "u" /\ byte \notin SimpleEscapes
  <2> DEFINE r == Fail(q, "INVALID_JSON")
  <2>1. Consume(r, 1)
    BY <1>10 DEF EscapedByte, q
  <2> HIDE DEF h
  <2>2. Sound(r) /\ r.validate = q.validate /\ q.validate = p.validate
    BY <1>5, <1>6, FailSound, FailFacts DEF Codes, Same
  <2>3. h \in Automaton /\ h.ctl = "dead" /\ h.spell = ref.spell /\ h.past = ref.past
    BY <1>4, <1>10 DEF Died
  <2>4. Agrees(r, h)
    BY <1>2, <1>5, <2>2, <2>3, FailAgrees
  <2>5. h.ctl \notin NumberEnds
    BY <2>3 DEF NumberEnds
  <2> HIDE DEF r
  <2> QED
    BY <1>1, <1>2, <2>1, <2>2, <2>3, <2>4, <2>5, TextSim
<1> QED
  BY <1>8, <1>9, <1>10

LEMMA HexDigitSim ==
  ASSUME ParserInv, GrammarInv, HexDigit
  PROVE  GrammarInv'
<1> DEFINE cp == p.acc * 16 + HexValue(byte)
           q == [p EXCEPT !.acc = cp, !.need = @ - 1]
           h == GrammarStep(ref, byte)
<1>1. Looping /\ p.lex = "string" /\ p.need # 0
  BY DEF HexDigit
<1>2. /\ InText(p, ref) /\ ref \in Automaton /\ Sound(p) /\ p \in Parser /\ Ok(p)
      /\ byte \in Marks /\ Flags(p) /\ ref.spell = ~p.validate /\ ref.stack = Kinds(p)
      /\ Len(chunk) >= 1 /\ GrammarRun(ref, SubSeq(chunk, 1, 1)) = h
  BY <1>1, TextFollows, LoopingFollows
<1>3. ref.ctl = "hex" /\ ref.left = p.need /\ ref.cp = p.acc /\ ~p.escape /\ p.need <= 4
  BY <1>1, <1>2 DEF InText
<1>4. p.need \in Nat /\ p.acc \in Nat /\ ref.left \in 1..4
  BY <1>1, <1>2, <1>3 DEF Parser
<1>5. /\ byte \notin HexDigits => Died(ref, h)
      /\ byte \in HexDigits /\ ref.left > 1 =>
           Moved(ref, h, "hex") /\ h.left = ref.left - 1 /\ h.cp = cp
      /\ byte \in HexDigits /\ ref.left = 1 => Pointed(ref, h, cp)
  BY <1>2, <1>3, <1>4, HexByteFacts
<1> HIDE DEF h
<1>6. CASE byte \notin HexDigits
  <2>1. Consume(Fail(p, "INVALID_JSON"), 1)
    BY <1>6 DEF HexDigit
  <2> QED
    BY <1>1, <1>5, <1>6, <2>1, RefusedSim DEF h
<1>7. CASE byte \in HexDigits
  <2>1. cp \in Nat
    <3>1. HexValue(byte) \in 0..15
      BY <1>7, HexValueType
    <3> DEFINE v == HexValue(byte)
               w == p.acc
    <3> HIDE DEF v, w
    <3>2. w * 16 + v \in Nat
      BY <1>4, <3>1 DEF v, w
    <3> QED
      BY <3>2 DEF v, w
  <2> HIDE DEF cp
  <2>2. Consume(IF q.need = 0 THEN AcceptCodePoint([q EXCEPT !.acc = 0], cp) ELSE q, 1)
    BY <1>7 DEF HexDigit, cp
  <2>3. /\ q \in Parser /\ Same(p, q) /\ q.token = p.token /\ q.high = p.high /\ q.code = p.code
        /\ q.need = p.need - 1 /\ q.acc = cp /\ ~q.escape
        /\ q.frames = p.frames /\ q.count = p.count
    <3> DEFINE m == p.need - 1
    <3>1. m \in Nat
      BY <1>1, <1>4
    <3>2. q = [p EXCEPT !.acc = cp, !.need = m]
      BY <1>2 DEF Parser
    <3> HIDE DEF m, q
    <3>3. /\ q \in Parser /\ Same(p, q) /\ q.token = p.token /\ q.high = p.high
          /\ q.code = p.code /\ q.need = m /\ q.acc = cp /\ q.escape = p.escape
          /\ q.frames = p.frames /\ q.count = p.count
      BY <1>2, <2>1, <3>1, <3>2 DEF Parser, Same
    <3> QED
      BY <1>3, <3>3 DEF m
  <2> HIDE DEF q
  <2>4. Sound(q)
    BY <1>2, <2>3, EscapeSound DEF Same
  <2>5. CASE p.need > 1
    <3>1. Consume(q, 1)
      BY <1>4, <2>2, <2>3, <2>5
    <3>2. Ok(q)
      BY <1>2, <2>3 DEF Ok
    <3>3. Moved(ref, h, "hex") /\ h.left = q.need /\ h.cp = q.acc /\ q.need # 0 /\ q.need <= 4
      BY <1>3, <1>4, <1>5, <1>7, <2>3, <2>5
    <3>4. InText(q, h) <=> Spelling(q, h)
      BY <2>3, <3>3 DEF InText, Moved
    <3> QED
      BY <1>1, <2>3, <2>4, <3>1, <3>2, <3>3, <3>4, OpenEscapeSim DEF h
  <2>6. CASE p.need = 1
    <3> DEFINE d == [q EXCEPT !.acc = 0]
               r == AcceptCodePoint(d, cp)
    <3>1. Consume(r, 1)
      BY <2>2, <2>3, <2>6
    <3>2. /\ d \in Parser /\ Same(q, d) /\ d.token = q.token /\ d.high = q.high
          /\ d.code = q.code /\ d.need = 0 /\ ~d.escape
          /\ d.frames = q.frames /\ d.count = q.count
      BY <2>3, <2>6 DEF Parser, Same
    <3> HIDE DEF d
    <3>3. Sound(d)
      BY <2>4, <3>2, EscapeSound DEF Same
    <3>4. Same(p, d) /\ d.token = p.token /\ d.high = p.high /\ Ok(d)
      BY <1>2, <2>3, <3>2 DEF Same, Ok
    <3>5. Reads(d, ref)
      <4>1. Flags(d) /\ Kinds(d) = Kinds(p) /\ d.lex = "string"
        BY <1>1, <1>2, <3>4 DEF Same, Flags, Kinds, Top
      <4>2. Spelling(d, ref)
        BY <1>2, <3>4 DEF InText, Spelling, Same
      <4>3. ref.spell = ~d.validate
        BY <1>2, <3>4 DEF Same
      <4> QED
        BY <1>2, <3>2, <3>4, <4>1, <4>2, <4>3 DEF Reads
    <3>6. Pointed(ref, h, cp)
      BY <1>3, <1>5, <1>7, <2>6
    <3>7. Agrees(r, h)
      BY <2>1, <3>5, <3>6, PointAgrees
    <3>8. Sound(r)
      BY <2>1, <3>3, AcceptCodePointSound
    <3> HIDE DEF r
    <3>9. Within(ref, h) /\ h.ctl = "string"
      BY <3>6 DEF Pointed
    <3>10. r.validate = p.validate
      <4>1. r.validate \in BOOLEAN /\ p.validate \in BOOLEAN
        BY <1>2, <3>8 DEF Sound, Parser
      <4>2. h.spell = ~r.validate /\ h.spell = ref.spell
        BY <3>7, <3>9 DEF Agrees, Within
      <4> QED
        BY <1>2, <4>1, <4>2
    <3>11. h.past = ref.past /\ h.ctl \notin NumberEnds
      BY <3>9 DEF Within, NumberEnds
    <3> QED
      BY <1>1, <1>2, <3>1, <3>7, <3>8, <3>10, <3>11, TextSim
  <2> QED
    BY <1>1, <1>4, <2>5, <2>6
<1> QED
  BY <1>6, <1>7

-----------------------------------------------------------------------------
(***************************************************************************)
(* Numbers, words, and the bytes between tokens.                           *)
(***************************************************************************)

\* A value begun outside a string may be delivered.
LEMMA WaitsFor ==
  ASSUME NEW q, Sound(q), Ok(q), Flags(q), q.lex \notin {"none", "string"}
  PROVE  LET e == [q EXCEPT !.lex = "none"] IN
         /\ Waiting(e) /\ Kinds(e) = Kinds(q) /\ e.validate = q.validate
         /\ e.token = q.token /\ e.failed = q.failed /\ e.frames = q.frames
<1> DEFINE e == [q EXCEPT !.lex = "none"]
<1>1. q \in Parser
  BY DEF Sound
<1>2. /\ e.frames = q.frames /\ e.started = q.started /\ e.finished = q.finished
      /\ e.code = q.code /\ e.validate = q.validate /\ e.isKey = q.isKey
      /\ e.token = q.token /\ e.failed = q.failed
  BY <1>1 DEF Parser
<1>3. Between(e)
  BY ClosedSound
<1> HIDE DEF e
<1>4. Waiting(e)
  BY <1>2, <1>3 DEF Waiting, Flags, Ok
<1>5. Kinds(e) = Kinds(q)
  BY <1>2 DEF Kinds
<1> QED
  BY <1>2, <1>4, <1>5 DEF e

\* A number is delivered where the grammar may end one.
LEMMA NumberDelivered ==
  ASSUME NEW q, Sound(q), Ok(q), q.lex = "number", NEW g \in Automaton, Follows(q, g)
  PROVE  LET r == DeliverToken([q EXCEPT !.lex = "none"], "number") IN
         /\ r.validate = q.validate /\ Between(r)
         /\ Ok(r) => Settled(r, Kinds(q)) /\ g.ctl \in NumberEnds
         /\ r.code = "INVALID_JSON" => g.ctl \notin NumberEnds
<1> DEFINE e == [q EXCEPT !.lex = "none"]
           t == q.token
<1>1. Flags(q) /\ InNumber(q, g) /\ q \in Parser
  BY DEF Follows, Sound
<1>2. Waiting(e) /\ Kinds(e) = Kinds(q) /\ e.validate = q.validate /\ e.token = t
  BY <1>1, WaitsFor
<1>3. t \in Seq(Marks)
  BY <1>1 DEF Parser
<1>4. Numeric(t) /\ g.ctl = GrammarRun(GrammarStart(FALSE), t).ctl
  BY <1>1, <1>3 DEF InNumber, Numeric
<1> HIDE DEF e, t
<1>5. /\ IsValidJsonNumber(t) <=> g.ctl \in NumberEnds
      /\ ParsesAsI64(t) => g.ctl \in NumberEnds
  BY <1>3, <1>4, NumberAccepted
<1> DEFINE r == DeliverToken(e, "number")
           mode == "number"
<1>6. /\ r.validate = e.validate
      /\ Ok(r) => Settled(r, Kinds(e))
      /\ mode = "number" /\ Ok(r) => IsValidJsonNumber(e.token) \/ ParsesAsI64(e.token)
      /\ r.code = "INVALID_JSON" => ~IsValidJsonNumber(e.token)
  BY <1>2, DeliverValueFacts
<1>7. Between(r)
  BY <1>2, DeliverTokenSound DEF Waiting
<1> HIDE DEF r
<1>8. Ok(r) => Settled(r, Kinds(q)) /\ g.ctl \in NumberEnds
  BY <1>2, <1>5, <1>6
<1>9. r.code = "INVALID_JSON" => g.ctl \notin NumberEnds
  BY <1>2, <1>5, <1>6
<1> QED
  BY <1>2, <1>6, <1>7, <1>8, <1>9 DEF e, r

\* The automaton beside a number stands in a number, or is dead.
LEMMA NumberControl ==
  ASSUME NEW q, q \in Parser, q.lex = "number", NEW g \in Automaton, Follows(q, g)
  PROVE  /\ g.ctl \in NumberStates \cup {"dead"}
         /\ GrammarRun(GrammarStart(FALSE), q.token) \in Automaton
         /\ GrammarRun(GrammarStart(FALSE), q.token).ctl = g.ctl
         /\ ~q.validate => g.stack # <<>> \/ g.ctl = "dead"
<1>1. Flags(q) /\ InNumber(q, g) /\ (g.ctl # "dead" => g.stack = Kinds(q))
  BY DEF Follows
<1>2. q.token \in Seq(Marks) /\ Numeric(q.token)
  BY <1>1 DEF Parser, InNumber, Numeric
<1>3. q.frames = <<>> => q.validate
  BY <1>1 DEF Flags
<1>4. Kinds(q) = <<>> <=> q.frames = <<>>
  BY KindsType
<1> QED
  BY <1>1, <1>2, <1>3, <1>4, NumericRun DEF InNumber

\* A byte after a number that grammar and parser refuse, or the parser alone.
LEMMA RefusesNumber ==
  ASSUME NEW r, NEW g \in Automaton, g.ctl \in NumberStates \cup {"dead"},
         NEW c, c \notin NumberBytes, ~Ok(r), g.spell = ~r.validate,
         r.code = "INVALID_JSON" => g.ctl \notin NumberEnds
  PROVE  LET h == GrammarStep(g, c) IN
         /\ Agrees(r, h) /\ h.spell = g.spell
         /\ g.stack # <<>> \/ g.ctl \notin NumberEnds => h.past = g.past
<1> DEFINE h == GrammarStep(g, c)
<1>1. CASE g.ctl \in NumberEnds
  <2> DEFINE e == EndValue(g)
  <2>1. Within(g, e) /\ e.ctl = After(g.stack)
    BY EndFacts
  <2>2. h = BetweenStep(e, c)
    BY <1>1, NumberEndFacts
  <2> HIDE DEF e
  <2>3. e \in Automaton /\ e.ctl \in Places /\ e.spell = g.spell /\ e.past = g.past
    BY <2>1 DEF Within, After, Places
  <2>4. Stays(e, BetweenStep(e, c)) /\ (e.ctl # "done" => BetweenStep(e, c).past = e.past)
    BY <2>3, BetweenKept
  <2>5. h \in Automaton /\ h.spell = g.spell
    BY <2>2, <2>3, <2>4 DEF Stays
  <2>6. g.stack # <<>> => h.past = g.past
    BY <2>1, <2>2, <2>3, <2>4 DEF After
  <2> HIDE DEF h
  <2>7. Agrees(r, h)
    BY <1>1, <2>5, FailedAgrees
  <2> QED
    BY <1>1, <2>5, <2>6, <2>7 DEF h
<1>2. CASE g.ctl \notin NumberEnds
  <2>1. h.ctl = "dead" /\ h \in Automaton /\ h.past = g.past /\ h.spell = g.spell
    BY <1>2, NumberEndFacts
  <2> HIDE DEF h
  <2>2. Agrees(r, h)
    BY <2>1 DEF Agrees, Refused
  <2> QED
    BY <2>1, <2>2 DEF h
<1> QED
  BY <1>1, <1>2

LEMMA NumberRunSim ==
  ASSUME ParserInv, GrammarInv, NumberRun
  PROVE  GrammarInv'
<1> DEFINE n == RunLength(chunk, NumberBytes)
           s == SubSeq(chunk, 1, n)
           q == ScratchAppendBytes(p, s)
           r == DeliverToken([q EXCEPT !.lex = "none"], "number")
           e == GrammarRun(GrammarStart(FALSE), p.token)
           h == GrammarRun(ref, s)
<1>1. Looping /\ p.lex = "number" /\ byte \in NumberBytes
  BY DEF NumberRun
<1>2. /\ result = "open" /\ Ok(p) /\ Follows(p, ref) /\ ref \in Automaton
      /\ ref.spell = ~p.validate /\ Flags(p) /\ chunk \in Seq(Marks) /\ Len(chunk) \in Nat
      /\ Sound(p) /\ p \in Parser
  BY <1>1, LoopingFollows
<1>3. /\ n \in 0..Len(chunk) /\ \A i \in 1..n : chunk[i] \in NumberBytes
      /\ n = Len(chunk) \/ chunk[n + 1] \notin NumberBytes
  BY <1>2, RunLengthFacts
<1>4. s \in Seq(Marks) /\ Len(s) = n /\ \A i \in 1..Len(s) : s[i] \in NumberBytes
  BY <1>2, <1>3
<1>5. /\ ref.ctl \in NumberStates \cup {"dead"} /\ e \in Automaton /\ e.ctl = ref.ctl
      /\ ~p.validate => ref.stack # <<>> \/ ref.ctl = "dead"
  BY <1>1, <1>2, NumberControl
<1>21. n \in Nat /\ n <= Len(chunk)
  BY <1>2, <1>3
<1>22. /\ ~Ok(q) \/ n = Len(chunk) => Consume(q, n)
       /\ Ok(q) /\ n < Len(chunk) => Consume(r, IF Ok(r) THEN n ELSE n + 1)
  <2>1. (CASE ~Ok(q) \/ n = Len(chunk) -> Consume(q, n)
           [] Ok(q) /\ n < Len(chunk) -> Consume(r, IF Ok(r) THEN n ELSE n + 1))
    BY DEF NumberRun
  <2> HIDE DEF q, r, n
  <2>2. ~(n = Len(chunk) /\ n < Len(chunk))
    BY <1>2, <1>21
  <2> QED
    BY <2>1, <2>2
<1> HIDE DEF n, s, e
<1>6. /\ h \in Automaton /\ h.ctl = GrammarRun(e, s).ctl
      /\ h.ctl \in NumberStates \cup {"dead"}
      /\ h.spell = ref.spell
      /\ h.ctl # "dead" => h.stack = ref.stack /\ ref.ctl # "dead"
      /\ ref.stack # <<>> \/ ref.ctl = "dead" => h.past = ref.past
  BY <1>2, <1>4, <1>5, NumberSteps
<1>7. p.token \in Seq(Marks) /\ InNumber(p, ref)
  BY <1>1, <1>2 DEF Parser, Follows
<1>8. GrammarRun(e, s) = GrammarRun(GrammarStart(FALSE), p.token \o s)
  <2> DEFINE t == p.token
             z == GrammarStart(FALSE)
  <2>1. t \in Seq(Marks)
    BY <1>7
  <2> HIDE DEF t, z
  <2>2. GrammarRun(z, t \o s) = GrammarRun(GrammarRun(z, t), s)
    BY <1>4, <2>1, RunConcat
  <2> QED
    BY <2>2 DEF e, t, z
<1>9. Sound(q) /\ q \in Parser
  BY <1>2, <1>4, ScratchAppendBytesSound DEF Sound
<1>10. /\ q.validate = p.validate /\ q.code # "INVALID_JSON" /\ q.lex = "number"
       /\ Ok(q) => Follows(q, h)
  <2> DEFINE a == [p EXCEPT !.token = p.token \o s]
             f == Fail(p, "ALLOCATION_FAILED")
  <2>1. q = a \/ q = f
    BY DEF ScratchAppendBytes
  <2>2. CASE q = f
    <3>1. f.validate = p.validate /\ f.code = "ALLOCATION_FAILED" /\ f.lex = p.lex
      BY <1>2 DEF Fail, Parser
    <3> QED
      BY <1>1, <2>2, <3>1 DEF Ok
  <2>3. CASE q = a
    <3>1. Same(p, a) /\ a.code = p.code /\ a.token = p.token \o s /\ a.lex = "number"
      BY <1>1, <1>2 DEF Parser, Same
    <3> HIDE DEF a, h
    <3>2. Flags(a) /\ Kinds(a) = Kinds(p)
      BY <1>2, <3>1 DEF Same, Flags, Kinds, Top
    <3>3. InNumber(a, h)
      <4> DEFINE t == p.token
                 u == t \o s
      <4>1. t \in Seq(Marks) /\ s \in Seq(Marks) /\ t # <<>> /\ t[1] \in Digits \cup {"-"}
            /\ \A i \in DOMAIN t : t[i] \in NumberBytes
        BY <1>4, <1>7 DEF InNumber
      <4> HIDE DEF t
      <4>2. u \in Seq(Marks) /\ u # <<>> /\ u[1] = t[1]
        BY <4>1
      <4>3. \A i \in DOMAIN u : u[i] \in NumberBytes
        <5> SUFFICES ASSUME NEW i \in DOMAIN u PROVE u[i] \in NumberBytes
          OBVIOUS
        <5>1. CASE i \in DOMAIN t
          <6>1. u[i] = t[i]
            BY <4>1, <5>1
          <6> QED
            BY <4>1, <5>1, <6>1
        <5>2. CASE i \notin DOMAIN t
          <6>1. i - Len(t) \in 1..Len(s) /\ u[i] = s[i - Len(t)]
            BY <4>1, <5>2
          <6> QED
            BY <1>4, <6>1
        <5> QED
          BY <5>1, <5>2
      <4>4. h.ctl = GrammarRun(GrammarStart(FALSE), u).ctl /\ a.token = u
        BY <1>6, <1>8, <3>1 DEF t
      <4> HIDE DEF u
      <4> QED
        BY <4>1, <4>2, <4>3, <4>4 DEF InNumber
    <3>4. h.ctl # "dead" => h.stack = Kinds(a)
      BY <1>2, <1>6, <3>2 DEF Follows
    <3>5. h.spell = ~a.validate
      BY <1>2, <1>6, <3>1 DEF Same
    <3>6. Follows(a, h)
      BY <3>1, <3>2, <3>3, <3>4, <3>5 DEF Follows, Literals
    <3> QED
      BY <1>2, <2>3, <3>1, <3>6 DEF Same, Ok
  <2> QED
    BY <2>1, <2>2, <2>3
<1>11. StopAtRoot /\ ref.spell => h.past = ref.past
  BY <1>2, <1>5, <1>6
<1>12. h = GrammarRun(ref, SubSeq(chunk, 1, n))
  BY DEF s
<1> HIDE DEF q, h
<1>13. CASE ~Ok(q)
  <2>1. Consume(q, n)
    BY <1>13, <1>22
  <2>2. Agrees(q, h)
    BY <1>2, <1>6, <1>10, <1>13, FailedAgrees
  <2> QED
    BY <1>2, <1>9, <1>10, <1>11, <1>12, <1>13, <1>21, <2>1, <2>2, ConsumeSim
<1>14. CASE Ok(q) /\ n = Len(chunk)
  <2>1. Consume(q, n)
    BY <1>14, <1>22
  <2>2. Agrees(q, h)
    BY <1>2, <1>6, <1>10, <1>14 DEF Agrees, Refused
  <2>3. q.lex # "none"
    BY <1>10
  <2> QED
    BY <1>2, <1>9, <1>10, <1>11, <1>12, <1>21, <2>1, <2>2, <2>3, ConsumeSim
<1>15. CASE Ok(q) /\ n # Len(chunk)
  <2>1. n < Len(chunk) /\ chunk[n + 1] \notin NumberBytes /\ n + 1 \in Nat
        /\ n + 1 <= Len(chunk)
    BY <1>2, <1>3, <1>15, <1>21
  <2>2. /\ r.validate = q.validate /\ Between(r)
        /\ Ok(r) => Settled(r, Kinds(q)) /\ h.ctl \in NumberEnds
        /\ r.code = "INVALID_JSON" => h.ctl \notin NumberEnds
    BY <1>6, <1>9, <1>10, <1>15, NumberDelivered
  <2>3. Consume(r, IF Ok(r) THEN n ELSE n + 1)
    BY <1>15, <1>22, <2>1
  <2> HIDE DEF r
  <2>4. r \in Parser
    BY <2>2 DEF Between, Sound
  <2>5. CASE Ok(r)
    <3>1. h.stack = Kinds(q)
      <4>1. h.ctl # "dead"
        BY <2>2, <2>5 DEF NumberEnds
      <4> QED
        BY <1>10, <1>15, <4>1 DEF Follows
    <3>2. Follows(r, h)
      BY <1>2, <1>6, <1>10, <2>2, <2>5, <3>1, SettledFollows
    <3>3. Agrees(r, h)
      BY <1>2, <1>6, <1>10, <2>2, <2>5, <3>2 DEF Agrees, Refused, Ok
    <3> QED
      BY <1>2, <1>10, <1>11, <1>12, <1>21, <2>1, <2>2, <2>3, <2>4, <2>5, <3>3, ConsumeSim
  <2>6. CASE ~Ok(r)
    <3> DEFINE c == chunk[n + 1]
               d == GrammarStep(h, c)
    <3>1. SubSeq(chunk, 1, n + 1) = Append(s, c) /\ c \in Marks
      BY <1>2, <1>21, <2>1, PrefixFacts DEF s
    <3>2. GrammarRun(ref, SubSeq(chunk, 1, n + 1)) = d
      <4>1. GrammarRun(ref, Append(s, c)) = GrammarStep(GrammarRun(ref, s), c)
        <5> HIDE DEF c
        <5> QED
          BY <1>4, <3>1, RunAppend
      <4> QED
        BY <3>1, <4>1 DEF h
    <3> HIDE DEF c, d
    <3>3. c \notin NumberBytes /\ h.spell = ~r.validate
      BY <1>2, <1>6, <1>10, <2>1, <2>2 DEF c
    <3>4. /\ Agrees(r, d) /\ d.spell = h.spell
          /\ h.stack # <<>> \/ h.ctl \notin NumberEnds => d.past = h.past
      BY <1>6, <2>2, <2>6, <3>3, RefusesNumber DEF d
    <3>5. StopAtRoot /\ ref.spell => d.past = ref.past
      <4>1. ref.spell => h.stack # <<>> \/ h.ctl \notin NumberEnds
        BY <1>2, <1>5, <1>6 DEF NumberEnds
      <4> QED
        BY <1>11, <3>4, <4>1
    <3>6. Consume(r, n + 1)
      BY <2>3, <2>6
    <3> QED
      BY <1>2, <1>10, <2>1, <2>2, <2>4, <2>6, <3>2, <3>4, <3>5, <3>6, ConsumeSim
  <2> QED
    BY <2>5, <2>6
<1> QED
  BY <1>13, <1>14, <1>15

\* Only a digit leaves the automaton where a number may end.
LEMMA DigitStarts ==
  ASSUME NEW g \in Automaton, NEW c, StartValue(g, c).ctl \in NumberEnds
  PROVE  c \in Digits
<1> DEFINE h == StartValue(g, c)
<1>1. c = "{" => h.ctl = "firstKey"
  BY StartFactsOfValue, Zenon
<1>2. c = "[" => h.ctl = "firstItem"
  BY StartFactsOfValue, Zenon
<1>3. c = Quote => h.ctl = "string"
  BY StartFactsOfValue, Zenon
<1>4. c \in Digits \cup {"-"} => h.ctl = NumberHead(c)
  BY StartFactsOfValue, Zenon
<1>5. LiteralOf(c) # {} => h.ctl = "literal"
  BY StartFactsOfValue, Zenon
<1>6. ~Opening(c) => h.ctl = "dead"
  BY NoValue
<1> HIDE DEF h
<1>7. h.ctl \in NumberEnds
  BY DEF h
<1> QED
  BY <1>1, <1>2, <1>3, <1>4, <1>5, <1>6, <1>7 DEF Opening, NumberEnds, NumberHead

LEMMA DigitOnly ==
  ASSUME NEW g \in Automaton, g.ctl \in Places, NEW c, BetweenStep(g, c).ctl \in NumberEnds
  PROVE  c \in Digits
<1> DEFINE h == BetweenStep(g, c)
<1>0. h.ctl \in NumberEnds /\ NumberEnds \cap (Places \cup {"dead", "string"}) = {}
  BY DEF NumberEnds, Places
<1>1. c \notin Spaces
  <2>1. c \in Spaces => h.ctl = g.ctl
    BY BetweenFacts, Zenon
  <2> QED
    BY <1>0, <2>1
<1>2. g.ctl # "done"
  <2>1. g.ctl = "done" => h.ctl = "dead"
    BY <1>1, BetweenFacts, Zenon
  <2> QED
    BY <1>0, <2>1
<1>3. CASE g.ctl \in {"firstKey", "key"}
  <2>1. /\ c = Quote => h = StartString(g, TRUE)
        /\ g.ctl = "firstKey" /\ c = "}" => h = Close(g)
        /\ c # Quote /\ ~(g.ctl = "firstKey" /\ c = "}") => h.ctl = "dead"
    BY <1>1, <1>3, KeyStep
  <2>2. StartString(g, TRUE).ctl = "string" /\ Close(g).ctl \in Places
    BY StringStartFacts, CloseFacts DEF After, Places
  <2> HIDE DEF h
  <2> QED
    BY <1>0, <2>1, <2>2
<1>4. CASE g.ctl = "after"
  <2>1. /\ c = "," => h = [g EXCEPT !.ctl = Comma(g)]
        /\ c = Closer(g) => h = Close(g)
        /\ c # "," /\ c # Closer(g) => h.ctl = "dead"
    BY <1>1, <1>4, AfterStep
  <2>2. Close(g).ctl \in Places
    BY CloseFacts DEF After, Places
  <2>3. [g EXCEPT !.ctl = Comma(g)].ctl \in Places
    BY DEF Automaton, Comma, Places
  <2> HIDE DEF h
  <2> QED
    BY <1>0, <2>1, <2>2, <2>3
<1>5. CASE g.ctl = "colon"
  <2>1. h = IF c = ":" THEN [g EXCEPT !.ctl = "value"] ELSE Dead(g)
    BY <1>1, <1>5, OpenStep
  <2>2. [g EXCEPT !.ctl = "value"].ctl \in Places /\ Dead(g).ctl = "dead"
    BY DeadFacts DEF Automaton, Places
  <2> HIDE DEF h
  <2> QED
    BY <1>0, <2>1, <2>2
<1>6. CASE g.ctl \in {"root", "value", "item", "firstItem"}
  <2>1. h = StartValue(g, c) \/ h = Close(g)
    BY <1>1, <1>6, OpenStep
  <2>2. Close(g).ctl \in Places
    BY CloseFacts DEF After, Places
  <2> HIDE DEF h
  <2>3. h = StartValue(g, c)
    BY <1>0, <2>1, <2>2
  <2> QED
    BY <1>0, <2>3, DigitStarts
<1> QED
  BY <1>2, <1>3, <1>4, <1>5, <1>6 DEF Places

\* A digit begins a number, or the parser fails.
LEMMA DigitBegins ==
  ASSUME NEW q, Between(q), Ok(q), Flags(q), NEW c \in Marks, c \in Digits,
         Ok(StructureByte(q, c))
  PROVE  StructureByte(q, c).lex = "number"
<1> DEFINE r == StructureByte(q, c)
           d == BeginScalar(q, "number", c)
<1>0. q.lex = "none" /\ q \in Parser
  BY DEF Between, Sound
<1>1. c \notin Spaces /\ c \notin {"{", "[", "}", "]", ":", ",", Quote}
  BY DEF Digits, NonZero, Spaces, Quote
<1>2. LiteralOf(c) = {}
  BY LiteralHeads DEF Digits, NonZero
<1>3. ScalarStart(q, c) = d
  BY <1>1, <1>2 DEF ScalarStart
<1>4. ValueStart(q, c) = d
  BY <1>1, <1>3 DEF ValueStart
<1>5. ~Ok(Fail(q, "INVALID_JSON"))
  BY <1>0, FailFacts
<1>6. /\ q.frames # <<>> => q.started /\ Fitting(Top(q))
      /\ q.finished <=> q.frames = <<>> /\ q.started
  BY <1>0, FlagsBetween
<1>7. Ready(q) /\ Ok(d) => d.lex = "number"
  BY BeginScalarFacts DEF Modes
<1>8. CASE ~q.started
  <2>1. Ready(q)
    BY <1>6, <1>8 DEF Ready
  <2>2. r = RootStart(q, c)
    BY <1>1, <1>8 DEF StructureByte
  <2>3. d \in Parser
    BY <1>3, ScalarStartSound DEF Between, Sound
  <2> HIDE DEF d, r
  <2>4. RootStart(q, c) = d \/ RootStart(q, c) = Fail(d, "TYPE_MISMATCH")
    BY <1>1, <1>3 DEF RootStart
  <2>5. ~Ok(Fail(d, "TYPE_MISMATCH"))
    BY <2>3, FailFacts
  <2>6. r = d
    BY <2>2, <2>4, <2>5 DEF r
  <2>7. Ok(d)
    BY <2>6 DEF r
  <2> QED
    BY <1>7, <2>1, <2>6, <2>7 DEF r
<1>9. CASE q.started /\ q.frames = <<>>
  BY <1>1, <1>5, <1>9 DEF StructureByte
<1>10. CASE q.started /\ q.frames # <<>>
  <2>1. Ready(q)
    BY <1>6, <1>10 DEF Ready
  <2>2. r = IF Top(q).kind = "object" THEN ObjectByte(q, c) ELSE ArrayByte(q, c)
    BY <1>1, <1>10 DEF StructureByte
  <2>3. ObjectByte(q, c) = Fail(q, "INVALID_JSON") \/ ObjectByte(q, c) = d
    BY <1>1, <1>4 DEF ObjectByte
  <2>4. ArrayByte(q, c) = Fail(q, "INVALID_JSON") \/ ArrayByte(q, c) = d
    BY <1>1, <1>4 DEF ArrayByte
  <2> HIDE DEF d, r
  <2>5. r = d /\ Ok(d)
    BY <1>5, <2>2, <2>3, <2>4 DEF r
  <2> QED
    BY <1>7, <2>1, <2>5 DEF r
<1> QED
  BY <1>8, <1>9, <1>10

\* The byte after a number, where the grammar ends one.
LEMMA NoNumberAfter ==
  ASSUME NEW g \in Automaton, g.ctl \in NumberEnds, NEW c, c \notin NumberBytes
  PROVE  GrammarStep(g, c).ctl \notin NumberEnds
<1> DEFINE e == EndValue(g)
<1>1. Within(g, e) /\ e.ctl = After(g.stack)
  BY EndFacts
<1>2. GrammarStep(g, c) = BetweenStep(e, c)
  BY NumberEndFacts DEF NumberEnds, NumberStates
<1> HIDE DEF e
<1>3. e \in Automaton /\ e.ctl \in Places
  BY <1>1 DEF Within, After, Places
<1>4. c \notin Digits
  BY DEF NumberBytes
<1> QED
  BY <1>2, <1>3, <1>4, DigitOnly

LEMMA NumberEndSim ==
  ASSUME Policy # "truncate", ParserInv, GrammarInv, NumberEnd
  PROVE  GrammarInv'
<1> DEFINE r == DeliverToken([p EXCEPT !.lex = "none"], "number")
           q == EndNumber(p, byte)
           h == GrammarStep(ref, byte)
<1>1. Looping /\ p.lex = "number" /\ byte \notin NumberBytes /\ Consume(q, 1)
  BY DEF NumberEnd
<1>2. /\ result = "open" /\ Ok(p) /\ Follows(p, ref) /\ ref \in Automaton
      /\ ref.spell = ~p.validate /\ Flags(p) /\ Len(chunk) >= 1
      /\ byte \in Marks /\ GrammarRun(ref, SubSeq(chunk, 1, 1)) = h
      /\ Sound(p) /\ p \in Parser
  BY <1>1, LoopingFollows
<1>3. /\ ref.ctl \in NumberStates \cup {"dead"}
      /\ ~p.validate => ref.stack # <<>> \/ ref.ctl = "dead"
  BY <1>1, <1>2, NumberControl
<1>4. /\ r.validate = p.validate /\ Between(r)
      /\ Ok(r) => Settled(r, Kinds(p)) /\ ref.ctl \in NumberEnds
      /\ r.code = "INVALID_JSON" => ref.ctl \notin NumberEnds
  BY <1>1, <1>2, NumberDelivered
<1>5. q = IF Ok(r) THEN StructureByte(r, byte) ELSE r
  BY DEF EndNumber, ReportsTruncation
<1>6. Sound(q)
  BY <1>2, EndNumberSound
<1> HIDE DEF q, r, h
<1>7. Agrees(q, h) /\ h.spell = ref.spell /\ (ref.spell => h.past = ref.past)
  <2>1. CASE ~Ok(r)
    <3>1. ref.spell = ~r.validate
      BY <1>2, <1>4
    <3>2. /\ Agrees(r, h) /\ h.spell = ref.spell
          /\ ref.stack # <<>> \/ ref.ctl \notin NumberEnds => h.past = ref.past
      BY <1>1, <1>2, <1>3, <1>4, <2>1, <3>1, RefusesNumber DEF h
    <3>3. ref.spell => ref.stack # <<>> \/ ref.ctl \notin NumberEnds
      BY <1>2, <1>3 DEF NumberEnds
    <3> QED
      BY <1>5, <2>1, <3>2, <3>3
  <2>2. CASE Ok(r)
    <3>1. ref.ctl \in NumberEnds /\ ref.ctl # "dead" /\ Settled(r, Kinds(p))
      BY <1>4, <2>2 DEF NumberEnds
    <3>2. ref.stack = Kinds(p)
      BY <1>2, <3>1 DEF Follows
    <3>3. Follows(r, ref)
      BY <1>2, <1>4, <3>1, <3>2, SettledFollows
    <3>4. /\ Agrees(StructureByte(r, byte), h) /\ h.spell = ref.spell
          /\ Place(r) # "done" => h.past = ref.past
      BY <1>1, <1>2, <1>4, <2>2, <3>3, BetweenAgrees DEF h
    <3>5. ref.spell => Place(r) # "done"
      BY <1>2, <1>3, <3>1, <3>2 DEF Settled, After
    <3> QED
      BY <1>5, <2>2, <3>4, <3>5
  <2> QED
    BY <2>1, <2>2
<1>8. q.validate = p.validate
  <2>1. q.validate \in BOOLEAN /\ p.validate \in BOOLEAN
    BY <1>2, <1>6 DEF Sound, Parser
  <2>2. h.spell = ~q.validate /\ h.spell = ref.spell
    BY <1>7 DEF Agrees
  <2> QED
    BY <1>2, <2>1, <2>2
<1>9. ~(Ok(q) /\ h.ctl \in NumberEnds)
  <2> SUFFICES ASSUME Ok(q), h.ctl \in NumberEnds PROVE FALSE
    OBVIOUS
  <2>1. Ok(r)
    BY <1>5
  <2>2. ref.ctl \in NumberEnds
    BY <1>4, <2>1
  <2> QED
    BY <1>1, <1>2, <2>2, NoNumberAfter DEF h
<1>10. q \in Parser
  BY <1>6 DEF Sound
<1> QED
  BY <1>1, <1>2, <1>7, <1>8, <1>9, <1>10, ConsumeSim

LEMMA StructureSim ==
  ASSUME ParserInv, GrammarInv, Structure
  PROVE  GrammarInv'
<1> DEFINE q == StructureByte(p, byte)
           h == GrammarStep(ref, byte)
<1>1. Looping /\ p.lex = "none" /\ Consume(q, 1)
  BY DEF Structure
<1>2. /\ result = "open" /\ Ok(p) /\ Follows(p, ref) /\ Ended(p, ref, chunk)
      /\ ref \in Automaton
      /\ ref.spell = ~p.validate /\ Flags(p) /\ Len(chunk) >= 1
      /\ byte \in Marks /\ GrammarRun(ref, SubSeq(chunk, 1, 1)) = h
      /\ Sound(p) /\ p \in Parser
  BY <1>1, LoopingFollows
<1>3. Between(p)
  BY <1>1, <1>2 DEF Between
<1>4. ref.ctl \in NumberEnds => byte \notin NumberBytes
  BY <1>1, <1>2 DEF Ended, Looping, byte
<1>5. Sound(q)
  BY <1>2, <1>3, StructureByteSound
<1> HIDE DEF q, h
<1>6. /\ Agrees(q, h) /\ h.spell = ref.spell
      /\ Place(p) # "done" => h.past = ref.past
  BY <1>2, <1>3, <1>4, BetweenAgrees DEF q, h
<1>7. StopAtRoot => Place(p) # "done"
  <2> SUFFICES ASSUME StopAtRoot, Place(p) = "done" PROVE FALSE
    OBVIOUS
  <2>1. CASE p.frames # <<>>
    <3>1. Top(p) \in Frame
      BY <1>2, <2>1, TopType
    <3> QED
      BY <2>1, <3>1 DEF Place, Expects, Frame
  <2>2. CASE p.frames = <<>>
    <3>1. p.started
      BY <2>2 DEF Place
    <3>2. RootComplete(p)
      BY <1>1, <1>2, <2>2, <3>1 DEF RootComplete, Flags
    <3> QED
      BY <1>1, <3>2 DEF Looping
  <2> QED
    BY <2>1, <2>2
<1>8. q.validate = p.validate
  <2>1. q.validate \in BOOLEAN /\ p.validate \in BOOLEAN
    BY <1>2, <1>5 DEF Sound, Parser
  <2>2. h.spell = ~q.validate /\ h.spell = ref.spell
    BY <1>6 DEF Agrees
  <2> QED
    BY <1>2, <2>1, <2>2
<1>9. ~(Ok(q) /\ q.lex = "none" /\ h.ctl \in NumberEnds)
  <2> SUFFICES ASSUME Ok(q), q.lex = "none", h.ctl \in NumberEnds PROVE FALSE
    OBVIOUS
  <2>1. CASE ref.ctl \in NumberEnds
    BY <1>2, <1>4, <2>1, NoNumberAfter DEF h
  <2>2. CASE ref.ctl \notin NumberEnds
    <3>1. ref.ctl = Place(p)
      BY <1>1, <1>2, <2>2 DEF Follows, InNone
    <3>2. ref.ctl \in Places
      BY <1>2, <3>1, PlaceType
    <3>3. byte \in Digits
      BY <1>2, <3>2, PlaceStep, DigitOnly DEF h
    <3> QED
      BY <1>2, <1>3, <3>3, DigitBegins DEF q
  <2> QED
    BY <2>1, <2>2
<1>10. q \in Parser
  BY <1>5 DEF Sound
<1> QED
  BY <1>1, <1>2, <1>6, <1>7, <1>8, <1>9, <1>10, ConsumeSim

LEMMA LiteralByteSim ==
  ASSUME ParserInv, GrammarInv, LiteralByte
  PROVE  GrammarInv'
<1> DEFINE want == Literals[p.lex]
           q == ScratchAppend(p, byte)
           r == DeliverToken([q EXCEPT !.lex = "none"], p.lex)
           h == GrammarStep(ref, byte)
           m == Len(p.token)
<1>1. Looping /\ p.lex \in DOMAIN Literals
  BY DEF LiteralByte
<1>2. /\ result = "open" /\ Ok(p) /\ Follows(p, ref) /\ ref \in Automaton
      /\ ref.spell = ~p.validate /\ Flags(p) /\ Len(chunk) >= 1
      /\ byte \in Marks /\ GrammarRun(ref, SubSeq(chunk, 1, 1)) = h
      /\ Sound(p) /\ p \in Parser
  BY <1>1, LoopingFollows
<1>3. /\ byte # want[m + 1] => Consume(Fail(p, "INVALID_JSON"), 1)
      /\ byte = want[m + 1] =>
           IF ~Ok(q) \/ Len(q.token) < Len(want) THEN Consume(q, 1) ELSE Consume(r, 1)
  BY DEF LiteralByte
<1>4. p.lex \notin {"none", "string", "number"} /\ p.lex \in {"true", "false", "null"}
  BY <1>1 DEF Literals
<1>5. /\ ref.ctl = "literal" /\ m < Len(want)
      /\ ref.want = SubSeq(want, m + 1, Len(want)) /\ ref.stack = Kinds(p)
  BY <1>1, <1>2 DEF Follows, InLiteral
<1>6. want \in Seq(Letters) /\ m \in Nat /\ p.token \in Seq(Marks)
  <2>1. p.token \in Seq(Marks)
    BY <1>2 DEF Parser
  <2>2. want \in Seq(Letters)
    <3>1. CASE p.lex = "true"
      <4>1. LiteralOf("t") # {} /\ (CHOOSE l \in LiteralOf("t") : TRUE) = "true"
        BY LiteralHeads
      <4> QED
        BY <3>1, <4>1, WordFacts
    <3>2. CASE p.lex = "false"
      <4>1. LiteralOf("f") # {} /\ (CHOOSE l \in LiteralOf("f") : TRUE) = "false"
        BY LiteralHeads
      <4> QED
        BY <3>2, <4>1, WordFacts
    <3>3. CASE p.lex = "null"
      <4>1. LiteralOf("n") # {} /\ (CHOOSE l \in LiteralOf("n") : TRUE) = "null"
        BY LiteralHeads
      <4> QED
        BY <3>3, <4>1, WordFacts
    <3> QED
      BY <1>4, <3>1, <3>2, <3>3
  <2> QED
    BY <2>1, <2>2
<1> HIDE DEF want, h
<1>7. /\ ref.want # <<>> /\ Head(ref.want) = want[m + 1]
      /\ Len(ref.want) = Len(want) - m
      /\ Tail(ref.want) = SubSeq(want, m + 2, Len(want))
  <2> HIDE DEF m
  <2> DEFINE w == SubSeq(want, m + 1, Len(want))
             k == Len(want)
  <2>1. w \in Seq(Letters) /\ Len(w) = k - m /\ \A i \in 1..(k - m) : w[i] = want[m + i]
    BY <1>5, <1>6
  <2>2. k \in Nat /\ m < k
    BY <1>5, <1>6
  <2>3. w # <<>> /\ Head(w) = want[m + 1]
    <3> HIDE DEF w, k
    <3>1. 1 \in 1..(k - m) /\ Len(w) >= 1
      BY <1>6, <2>1, <2>2
    <3>2. w[1] = want[m + 1]
      BY <2>1, <3>1
    <3>3. w # <<>> /\ Head(w) = w[1]
      BY <2>1, <3>1
    <3> QED
      BY <3>2, <3>3
  <2>4. Tail(w) = SubSeq(want, m + 2, k)
    <3> DEFINE t == Tail(w)
               u == SubSeq(want, m + 2, k)
    <3> HIDE DEF w, k
    <3>1. t \in Seq(Letters) /\ Len(t) = k - m - 1 /\ \A i \in 1..(k - m - 1) : t[i] = w[i + 1]
      BY <1>6, <2>1, <2>2, <2>3
    <3>2. u \in Seq(Letters) /\ Len(u) = k - m - 1
          /\ \A i \in 1..(k - m - 1) : u[i] = want[m + 1 + i]
      BY <1>6, <2>2 DEF k
    <3> HIDE DEF t, u
    <3>3. \A i \in 1..(k - m - 1) : t[i] = u[i]
      <4> SUFFICES ASSUME NEW i \in 1..(k - m - 1) PROVE t[i] = u[i]
        OBVIOUS
      <4>1. i + 1 \in 1..(k - m) /\ m + (i + 1) = m + 1 + i
        BY <1>6, <2>2
      <4> QED
        BY <2>1, <3>1, <3>2, <4>1
    <3>4. t = u
      BY <3>1, <3>2, <3>3
    <3> QED
      BY <3>4 DEF t, u
  <2> QED
    BY <1>5, <2>1, <2>3, <2>4
<1>8. /\ byte # Head(ref.want) => Died(ref, h)
      /\ byte = Head(ref.want) /\ Len(ref.want) = 1 =>
           /\ Within(ref, h) /\ h.ctl = After(ref.stack) /\ h.paired = ref.paired
      /\ byte = Head(ref.want) /\ Len(ref.want) # 1 =>
           /\ Within(ref, h) /\ h.ctl = "literal" /\ h.paired = ref.paired
           /\ h.want = Tail(ref.want)
  BY <1>2, <1>5, <1>7, LiteralByteFacts DEF h
<1>9. CASE byte # want[m + 1]
  <2> DEFINE d == Fail(p, "INVALID_JSON")
  <2>1. Consume(d, 1)
    BY <1>3, <1>9
  <2>2. h \in Automaton /\ h.ctl = "dead" /\ h.spell = ref.spell /\ h.past = ref.past
    BY <1>7, <1>8, <1>9 DEF Died
  <2>3. Agrees(d, h)
    BY <1>2, <2>2, FailAgrees
  <2>4. d \in Parser /\ d.validate = p.validate
    BY <1>2, FailSound, FailFacts DEF Codes, Sound
  <2>5. h.ctl \notin NumberEnds
    BY <2>2 DEF NumberEnds
  <2> HIDE DEF d
  <2> QED
    BY <1>2, <2>1, <2>2, <2>3, <2>4, <2>5, ConsumeSim
<1>10. CASE byte = want[m + 1]
  <2>1. IF ~Ok(q) \/ Len(q.token) < Len(want) THEN Consume(q, 1) ELSE Consume(r, 1)
    BY <1>3, <1>10
  <2>2. Sound(q) /\ q \in Parser
    BY <1>2, ScratchAppendSound DEF Sound
  <2>3. /\ Same(p, q) /\ q.code # "INVALID_JSON"
        /\ Ok(q) => q.token = Append(p.token, byte)
    <3> DEFINE a == [p EXCEPT !.token = Append(p.token, byte)]
               f == Fail(p, "ALLOCATION_FAILED")
    <3>1. q = a \/ q = f
      BY DEF ScratchAppend
    <3>2. Same(p, a) /\ a.code = p.code /\ a.token = Append(p.token, byte)
      BY <1>2 DEF Parser, Same
    <3>3. Same(p, f) /\ f.code = "ALLOCATION_FAILED"
      BY <1>2 DEF Parser, Same, Fail
    <3> HIDE DEF a, f, q
    <3> QED
      BY <1>2, <3>1, <3>2, <3>3 DEF Ok
  <2> HIDE DEF q
  <2>4. /\ Within(ref, h) /\ h.ctl \notin NumberEnds
    <3>1. Within(ref, h) /\ h.ctl \in {"done", "after", "literal"}
      BY <1>7, <1>8, <1>10 DEF After
    <3> QED
      BY <3>1 DEF NumberEnds
  <2>5. h \in Automaton /\ h.spell = ~p.validate /\ h.stack = Kinds(p) /\ h.past = ref.past
    BY <1>2, <1>5, <2>4 DEF Within
  <2>6. q.validate = p.validate /\ q.lex = p.lex /\ Flags(q) /\ Kinds(q) = Kinds(p)
    BY <1>2, <2>3 DEF Same, Flags, Kinds, Top
  <2>7. CASE ~Ok(q)
    <3>1. Agrees(q, h)
      BY <2>3, <2>5, <2>6, <2>7, FailedAgrees
    <3> QED
      BY <1>2, <2>1, <2>2, <2>4, <2>5, <2>6, <2>7, <3>1, ConsumeSim
  <2>8. CASE Ok(q) /\ Len(q.token) < Len(want)
    <3>1. Len(q.token) = m + 1
      BY <1>2, <1>6, <2>3, <2>8
    <3>2. Len(ref.want) # 1
      <4> DEFINE k == Len(want)
      <4>1. k \in Nat /\ m + 1 < k
        BY <1>6, <2>8, <3>1
      <4> HIDE DEF k, m
      <4>2. k - m # 1
        BY <1>6, <4>1
      <4> QED
        BY <1>7, <4>2 DEF k
    <3>3. h.ctl = "literal" /\ h.want = SubSeq(want, m + 2, Len(want))
      BY <1>7, <1>8, <1>10, <3>2
    <3>4. (m + 1) + 1 = m + 2
      BY <1>6
    <3>5. InLiteral(q, h)
      <4> HIDE DEF m
      <4> QED
        BY <2>6, <2>8, <3>1, <3>3, <3>4 DEF InLiteral, want
    <3>6. Follows(q, h)
      BY <1>4, <2>5, <2>6, <3>5 DEF Follows
    <3>7. Agrees(q, h)
      BY <2>3, <2>5, <2>6, <3>6 DEF Agrees, Refused
    <3> QED
      BY <1>2, <2>1, <2>2, <2>4, <2>5, <2>6, <2>8, <3>7, ConsumeSim
  <2>9. CASE Ok(q) /\ ~(Len(q.token) < Len(want))
    <3>1. Len(q.token) = m + 1
      BY <1>2, <1>6, <2>3, <2>9
    <3>2. Len(ref.want) = 1
      <4> DEFINE k == Len(want)
      <4>1. k \in Nat /\ m < k /\ ~(m + 1 < k)
        BY <1>5, <1>6, <2>9, <3>1
      <4> HIDE DEF k, m
      <4>2. k - m = 1
        BY <1>6, <4>1
      <4> QED
        BY <1>7, <4>2 DEF k
    <3>3. h.ctl = After(Kinds(p))
      BY <1>5, <1>7, <1>8, <1>10, <3>2
    <3> DEFINE e == [q EXCEPT !.lex = "none"]
               mode == p.lex
    <3>4. Waiting(e) /\ Kinds(e) = Kinds(q) /\ e.validate = q.validate
      BY <1>4, <2>2, <2>6, <2>9, WaitsFor
    <3> HIDE DEF e
    <3>5. /\ r.validate = e.validate
          /\ Ok(r) => Settled(r, Kinds(e))
          /\ mode # "number" => r.code # "INVALID_JSON"
      BY <3>4, DeliverValueFacts DEF e
    <3>6. Between(r)
      BY <3>4, DeliverTokenSound DEF e, Waiting
    <3>7. Consume(r, 1)
      BY <2>1, <2>9
    <3> HIDE DEF r
    <3>8. Completes(p, r, Kinds(p))
      BY <1>4, <2>6, <3>4, <3>5 DEF Completes
    <3>9. Agrees(r, h)
      BY <2>5, <3>3, <3>8, CloseAgrees
    <3>10. r \in Parser /\ r.validate = p.validate
      BY <2>6, <3>4, <3>5, <3>6 DEF Between, Sound
    <3> QED
      BY <1>2, <2>4, <2>5, <3>7, <3>9, <3>10, ConsumeSim
  <2> QED
    BY <2>7, <2>8, <2>9
<1> QED
  BY <1>9, <1>10

-----------------------------------------------------------------------------
(***************************************************************************)
(* Calls: feed, finish and the next document.                              *)
(***************************************************************************)

\* Only the loop's end sets the failed flag.
SameFlag(q, r) == "failed" \in DOMAIN r /\ r.failed = q.failed

LEMMA FailFlag ==
  ASSUME NEW q, "failed" \in DOMAIN q, NEW code
  PROVE  SameFlag(q, Fail(q, code))
  BY DEF Fail, SameFlag

LEMMA SetTopFlag ==
  ASSUME NEW q, "failed" \in DOMAIN q, NEW f
  PROVE  SameFlag(q, SetTop(q, f))
  BY DEF SetTop, SameFlag

LEMMA ParentFlag ==
  ASSUME NEW q, "failed" \in DOMAIN q
  PROVE  SameFlag(q, CompleteParent(q))
<1> DEFINE f == [Top(q) EXCEPT !.state = "comma",
                               !.field = IF Top(q).kind = "object" THEN {} ELSE @]
           d == [q EXCEPT !.finished = TRUE]
<1>1. SameFlag(q, d)
  BY DEF SameFlag
<1>2. CompleteParent(q) = IF q.frames = <<>> THEN d ELSE SetTop(q, f)
  BY DEF CompleteParent
<1> HIDE DEF d, f
<1>3. SameFlag(q, SetTop(q, f))
  BY SetTopFlag
<1> QED
  BY <1>1, <1>2, <1>3

LEMMA SeenFlag ==
  ASSUME NEW q, "failed" \in DOMAIN q
  PROVE  SameFlag(q, MarkSeen(q))
  BY SetTopFlag DEF MarkSeen

LEMMA FieldFlag ==
  ASSUME NEW q, "failed" \in DOMAIN q, NEW mode
  PROVE  SameFlag(q, ScalarForField(q, mode))
<1> DEFINE kind == KindOf(Top(q).field)
           m == MarkSeen(q)
           e == [m EXCEPT !.count = 0]
           r == ScalarForField(q, mode)
<1>1. SameFlag(q, m)
  BY SeenFlag
<1>2. \/ r = CompleteParent(q) \/ r = Fail(q, "DUPLICATE_FIELD")
      \/ r = CompleteParent(m) \/ r = CompleteParent(e) \/ r = Fail(m, "TYPE_MISMATCH")
  BY DEF ScalarForField
<1> HIDE DEF m, r
<1>3. SameFlag(m, e)
  BY <1>1 DEF SameFlag
<1> HIDE DEF e
<1>4. /\ SameFlag(q, CompleteParent(q)) /\ SameFlag(q, Fail(q, "DUPLICATE_FIELD"))
  BY ParentFlag, FailFlag
<1>5. SameFlag(m, CompleteParent(m)) /\ SameFlag(m, Fail(m, "TYPE_MISMATCH"))
  BY <1>1, ParentFlag, FailFlag DEF SameFlag
<1>6. SameFlag(e, CompleteParent(e))
  BY <1>3, ParentFlag DEF SameFlag
<1> QED
  BY <1>1, <1>2, <1>3, <1>4, <1>5, <1>6 DEF SameFlag, r

LEMMA ArrayFlag ==
  ASSUME NEW q, "failed" \in DOMAIN q, NEW mode
  PROVE  SameFlag(q, ScalarForArray(q, mode))
<1> DEFINE n == SetTop(q, [Top(q) EXCEPT !.state = "comma"])
           r == ScalarForArray(q, mode)
           a == [n EXCEPT !.count = @ + 1]
           b == [n EXCEPT !.truncated = TRUE]
<1>1. SameFlag(q, n)
  BY SetTopFlag
<1>2. r = Fail(q, "TYPE_MISMATCH") \/ r = a \/ r = Fail(q, "OVERFLOW") \/ r = b
  BY DEF ScalarForArray
<1> HIDE DEF n, r
<1>3. SameFlag(n, a) /\ SameFlag(n, b)
  BY <1>1 DEF SameFlag
<1>4. SameFlag(q, Fail(q, "TYPE_MISMATCH")) /\ SameFlag(q, Fail(q, "OVERFLOW"))
  BY FailFlag
<1> HIDE DEF a, b
<1> QED
  BY <1>1, <1>2, <1>3, <1>4 DEF SameFlag, r

LEMMA DeliverFlag ==
  ASSUME NEW q, "failed" \in DOMAIN q, NEW mode
  PROVE  SameFlag(q, DeliverToken(q, mode))
<1> DEFINE r == DeliverToken(q, mode)
           d == [q EXCEPT !.started = TRUE, !.finished = TRUE]
           s == SetTop(q, [Top(q) EXCEPT !.comma = FALSE, !.state = "comma"])
           k == DeliverKey(q, q.token)
           f == Fail(q, "INVALID_JSON")
<1>1. SameFlag(q, d)
  BY DEF SameFlag
<1>2. SameFlag(q, s) /\ SameFlag(q, k) /\ SameFlag(q, f)
  BY SetTopFlag, FailFlag DEF DeliverKey
<1>3. SameFlag(q, ScalarForField(q, mode)) /\ SameFlag(q, ScalarForArray(q, mode))
  BY FieldFlag, ArrayFlag
<1>4. \/ r = k \/ r = f \/ r = d \/ r = s
      \/ r = ScalarForField(q, mode) \/ r = ScalarForArray(q, mode)
  BY DEF DeliverToken
<1> HIDE DEF r, d, s, k, f
<1>5. SameFlag(q, r)
  BY <1>1, <1>2, <1>3, <1>4
<1> QED
  BY <1>5 DEF r

\* The automaton stands in a whole document where the parser has one, and
\* nowhere else.
LEMMA WholeIsComplete ==
  ASSUME NEW q \in Parser, Ok(q), q.lex # "number", NEW g \in Automaton, Follows(q, g)
  PROVE  Complete(g) <=> q.lex = "none" /\ q.started /\ q.finished /\ q.frames = <<>>
<1>1. Flags(q) /\ (g.ctl # "dead" => g.stack = Kinds(q))
  BY DEF Follows
<1>2. Kinds(q) = <<>> <=> q.frames = <<>>
  BY KindsType
<1>3. q.lex \in Modes
  BY DEF Parser
<1>4. CASE q.lex = "none"
  <2>1. g.ctl = Place(q) \/ (g.ctl \in NumberEnds /\ Place(q) \in {"after", "done"})
    BY <1>4 DEF Follows, InNone
  <2>2. Place(q) \in Places
    BY PlaceType
  <2>3. CASE q.frames = <<>>
    <3>1. Place(q) = IF q.started THEN "done" ELSE "root"
      BY <2>3 DEF Place
    <3>2. q.finished <=> q.started
      BY <1>1, <2>3 DEF Flags
    <3> QED
      BY <1>1, <1>2, <1>4, <2>1, <2>3, <3>1, <3>2 DEF Complete, NumberEnds
  <2>4. CASE q.frames # <<>>
    <3>1. Top(q) \in Frame
      BY <2>4, TopType
    <3>2. Place(q) = Expects(Top(q)) /\ Expects(Top(q)) # "done"
      BY <2>4, <3>1 DEF Place, Expects, Frame
    <3>3. g.ctl # "done" /\ (g.ctl \in NumberEnds => g.stack # <<>>)
      BY <1>1, <1>2, <2>1, <2>2, <2>4, <3>2 DEF NumberEnds, Places
    <3> QED
      BY <2>4, <3>3 DEF Complete
  <2> QED
    BY <2>3, <2>4
<1>5. CASE q.lex = "string"
  <2>1. g.ctl \in {"hex", "escape", "string"}
    BY <1>5 DEF Follows, InText
  <2> QED
    BY <1>5, <2>1 DEF Complete, NumberEnds
<1>6. CASE q.lex \in DOMAIN Literals
  <2>1. g.ctl = "literal"
    BY <1>6 DEF Follows, InLiteral
  <2> QED
    BY <1>6, <2>1 DEF Complete, NumberEnds, Literals
<1> QED
  BY <1>3, <1>4, <1>5, <1>6 DEF Modes, Literals

\* finish on an open number.
LEMMA FinishNumber ==
  ASSUME NEW q, Sound(q), Ok(q), ~q.failed, q.lex = "number", NEW g \in Automaton, Follows(q, g)
  PROVE  LET r == DeliverToken([q EXCEPT !.lex = "none"], "number") IN
         /\ r \in Parser /\ r.validate = q.validate /\ ~r.failed
         /\ Ok(r) => (Complete(g) <=> r.lex = "none" /\ r.started /\ r.finished /\ r.frames = <<>>)
         /\ r.code = "INVALID_JSON" => ~Complete(g)
<1> DEFINE e == [q EXCEPT !.lex = "none"]
           r == DeliverToken(e, "number")
<1>1. q \in Parser
  BY DEF Sound
<1>2. "failed" \in DOMAIN e /\ e.failed = q.failed
  BY <1>1 DEF Parser
<1>3. /\ r.validate = q.validate /\ Between(r)
      /\ Ok(r) => Settled(r, Kinds(q)) /\ g.ctl \in NumberEnds
      /\ r.code = "INVALID_JSON" => g.ctl \notin NumberEnds
  BY NumberDelivered
<1> HIDE DEF e
<1>4. ~r.failed
  BY <1>2, DeliverFlag DEF SameFlag
<1> HIDE DEF r
<1>5. r \in Parser /\ r.lex = "none"
  BY <1>3 DEF Between, Sound
<1>6. g.ctl \in NumberStates \cup {"dead"}
  BY <1>1, NumberControl
<1>7. r.code = "INVALID_JSON" => ~Complete(g)
  BY <1>3, <1>6 DEF Complete, NumberStates
<1>8. ASSUME Ok(r)
      PROVE  Complete(g) <=> r.lex = "none" /\ r.started /\ r.finished /\ r.frames = <<>>
  <2>1. g.ctl \in NumberEnds /\ Settled(r, Kinds(q))
    BY <1>3, <1>8
  <2>2. g.stack = Kinds(q)
    BY <2>1 DEF Follows, NumberEnds
  <2>3. Follows(r, g)
    BY <1>3, <2>1, <2>2, SettledFollows DEF Follows
  <2> QED
    BY <1>5, <1>8, <2>3, WholeIsComplete
<1> QED
  BY <1>3, <1>4, <1>5, <1>7, <1>8 DEF e, r

LEMMA FinishSim ==
  ASSUME ParserInv, GrammarInv, Finish, Policy # "truncate"
  PROVE  GrammarInv'
<1> DEFINE open == ~p.failed /\ p.lex = "number"
           d == DeliverToken([p EXCEPT !.lex = "none"], "number")
           q == IF open THEN d ELSE p
           returned == p.failed \/ ~Ok(q) \/ (open /\ ReportsTruncation(p))
           whole == q.lex = "none" /\ q.started /\ q.finished /\ q.frames = <<>>
           r == IF returned \/ whole THEN q ELSE Fail(q, "INVALID_JSON")
<1>1. /\ result = "open" /\ chunk = <<>> /\ ref' = ref /\ p' = r
      /\ result' = IF ~returned /\ whole /\ q.truncated THEN "TRUNCATED" ELSE r.code
  BY DEF Finish
<1>2. /\ Sound(p) /\ p \in Parser
  BY DEF ParserInv, Sound
<1>3. /\ p.failed <=> ~Ok(p)
      /\ Agrees(p, ref) /\ ref \in Automaton /\ ref.spell = ~p.validate
      /\ StopAtRoot /\ ref.spell => ~ref.past
  BY <1>1 DEF GrammarInv, Following
<1>4. ~ReportsTruncation(p)
  BY DEF ReportsTruncation
<1>5. /\ q \in Parser /\ q.validate = p.validate /\ q.failed = p.failed
      /\ ~p.failed /\ Ok(q) => (Complete(ref) <=> whole)
      /\ ~p.failed /\ q.code = "INVALID_JSON" => ~Complete(ref)
  <2>1. CASE open
    <3>1. Ok(p) /\ Follows(p, ref)
      BY <1>3, <2>1 DEF Agrees
    <3>2. /\ d \in Parser /\ d.validate = p.validate /\ ~d.failed
          /\ Ok(d) => (Complete(ref) <=> d.lex = "none" /\ d.started /\ d.finished /\ d.frames = <<>>)
          /\ d.code = "INVALID_JSON" => ~Complete(ref)
      BY <1>2, <1>3, <2>1, <3>1, FinishNumber
    <3> HIDE DEF d
    <3>3. q = d
      BY <2>1
    <3> HIDE DEF q
    <3> QED
      BY <1>2, <2>1, <3>2, <3>3 DEF Parser
  <2>2. CASE ~open
    <3>1. q = p
      BY <2>2
    <3> HIDE DEF q, d
    <3>2. ~p.failed => Ok(p) /\ Follows(p, ref) /\ p.lex # "number"
      BY <1>3, <2>2 DEF Agrees
    <3>3. ~p.failed => (Complete(ref) <=> whole)
      BY <1>2, <1>3, <3>1, <3>2, WholeIsComplete
    <3> QED
      BY <1>2, <1>3, <3>1, <3>3 DEF Ok
  <2> QED
    BY <2>1, <2>2
<1> HIDE DEF q, open
<1> DEFINE f == Fail(q, "INVALID_JSON")
<1>6. /\ f.validate = q.validate /\ f.code = "INVALID_JSON" /\ f.failed = q.failed
  BY <1>5 DEF Fail, Parser
<1> HIDE DEF whole, f
<1>7. q.code \in Codes
  BY <1>5 DEF Parser
<1>8. CASE p.failed
  <2>1. r = q /\ q = p /\ result' = p.code
    BY <1>1, <1>8 DEF q, open
  <2>2. Refused(p, ref) /\ ~Ok(p)
    BY <1>3, <1>8 DEF Agrees
  <2>3. p.code # "TRUNCATED" /\ p.code # "open" /\ p.code # "OK"
    BY <1>7, <2>1, <2>2 DEF Codes, Ok
  <2>4. p.code = "INVALID_JSON" => ~Complete(ref) \/ ~ref.paired
    BY <2>2 DEF Refused, Complete, NumberEnds
  <2>5. p' = p /\ ref' = ref
    BY <1>1, <2>1
  <2> HIDE DEF r
  <2>6. Judged'
    BY <2>1, <2>2, <2>3, <2>4, <2>5 DEF Judged, Refused, Ok, Complete
  <2> QED
    BY <1>3, <2>1, <2>3, <2>5, <2>6 DEF GrammarInv
<1>9. CASE ~p.failed /\ ~Ok(q)
  <2>1. r = q /\ result' = q.code /\ p' = q
    BY <1>1, <1>9
  <2> HIDE DEF r
  <2>2. q.code # "TRUNCATED" /\ q.code # "open" /\ q.code # "OK"
    BY <1>7, <1>9 DEF Codes, Ok
  <2>3. Judged'
    BY <1>1, <1>5, <1>9, <2>1, <2>2 DEF Judged, Ok, Complete
  <2> QED
    BY <1>1, <1>3, <1>5, <2>1, <2>2, <2>3 DEF GrammarInv
<1>10. CASE ~p.failed /\ Ok(q) /\ whole
  <2>1. r = q /\ p' = q /\ result' \in {"TRUNCATED", "OK"}
    BY <1>1, <1>4, <1>10 DEF Ok
  <2> HIDE DEF r
  <2>2. Judged'
    BY <1>1, <1>5, <1>10, <2>1 DEF Judged, Complete
  <2> QED
    BY <1>1, <1>3, <1>5, <2>1, <2>2 DEF GrammarInv
<1>11. CASE ~p.failed /\ Ok(q) /\ ~whole
  <2>1. r = f
    BY <1>4, <1>11 DEF f
  <2>2. p' = f /\ result' = "INVALID_JSON"
    BY <1>1, <1>6, <1>11, <2>1
  <2> HIDE DEF r
  <2>3. ~Complete(ref)
    BY <1>5, <1>11
  <2>4. Judged'
    BY <1>1, <1>5, <1>6, <1>11, <2>2, <2>3 DEF Judged, Ok, Complete
  <2> QED
    BY <1>1, <1>3, <1>5, <1>6, <2>2, <2>4 DEF GrammarInv
<1> QED
  BY <1>8, <1>9, <1>10, <1>11

\* A parser just initialised follows the automaton's start.
LEMMA FreshFollows ==
  ASSUME NEW validate \in BOOLEAN
  PROVE  /\ Agrees(InitState(validate), GrammarStart(~validate))
         /\ ~InitState(validate).failed /\ Ok(InitState(validate))
         /\ InitState(validate).validate = validate
         /\ GrammarStart(~validate).ctl \notin NumberEnds
         /\ ~GrammarStart(~validate).past
<1> DEFINE q == InitState(validate)
           g == GrammarStart(~validate)
<1>1. q \in Parser
  BY InitStateSound DEF Sound
<1>2. /\ q.validate = validate /\ q.frames = <<>> /\ ~q.started /\ ~q.finished
      /\ ~q.failed /\ q.code = "OK" /\ q.lex = "none"
  BY DEF InitState
<1>3. /\ g \in Automaton /\ g.ctl = "root" /\ g.stack = <<>> /\ g.spell = ~validate
      /\ ~g.past
  BY StartFacts
<1> HIDE DEF q, g
<1>4. Flags(q) /\ Kinds(q) = <<>> /\ Place(q) = "root"
  BY <1>1, <1>2, FlagsBetween, KindsType DEF Place
<1>5. Follows(q, g)
  BY <1>2, <1>3, <1>4 DEF Follows, InNone, Literals
<1>6. Agrees(q, g)
  BY <1>2, <1>3, <1>5 DEF Agrees, Refused
<1> QED
  BY <1>2, <1>3, <1>6 DEF q, g, Ok, NumberEnds

LEMMA GrammarInit ==
  ASSUME Init
  PROVE  GrammarInv
<1>1. PICK validate \in BOOLEAN : p = InitState(validate) /\ ref = GrammarStart(~validate)
  BY DEF Init
<1>2. /\ Agrees(p, ref) /\ ~p.failed /\ Ok(p) /\ ref.ctl \notin NumberEnds /\ ~ref.past
      /\ chunk = <<>> /\ result = "open"
  BY <1>1, FreshFollows DEF Init
<1>3. Following
  BY <1>2 DEF Following, Ended
<1> QED
  BY <1>2, <1>3 DEF GrammarInv, Agrees

LEMMA RestartSim ==
  ASSUME ParserInv, GrammarInv, Restart
  PROVE  GrammarInv'
<1>1. p.validate \in BOOLEAN
  BY DEF ParserInv, Sound, Parser
<1>2. p' = InitState(p.validate) /\ ref' = GrammarStart(~p.validate)
      /\ chunk' = <<>> /\ result' = "open"
  BY DEF Restart
<1>3. /\ Agrees(p', ref') /\ ~p'.failed /\ Ok(p') /\ ref'.ctl \notin NumberEnds /\ ~ref'.past
  BY <1>1, <1>2, FreshFollows
<1>4. Following'
  BY <1>2, <1>3 DEF Following, Ended, Ok
<1> QED
  BY <1>2, <1>3, <1>4 DEF GrammarInv, Agrees

\* A feed call that begins, and one that stops at the root value's end.
LEMMA FeedSim ==
  ASSUME ParserInv, GrammarInv, Feed \/ StopFeed
  PROVE  GrammarInv'
<1>1. /\ p' = p /\ ref' = ref /\ result = "open" /\ result' = result
      /\ Following
  BY DEF Feed, StopFeed, GrammarInv
<1>2. CASE Feed
  <2>1. Ok(p) /\ chunk = <<>>
    BY <1>1, <1>2 DEF Feed, Following
  <2>2. Ended(p, ref, chunk')
    BY <1>1, <2>1 DEF Following, Ended
  <2>3. Following'
    BY <1>1, <2>1, <2>2 DEF Following, Ok
  <2> QED
    BY <1>1, <2>3 DEF GrammarInv
<1>3. CASE StopFeed
  <2>1. StopAtRoot /\ RootComplete(p) /\ chunk' = <<>>
    BY <1>3 DEF StopFeed
  <2>2. Ended(p, ref, chunk')
    BY <2>1 DEF Ended
  <2>3. Following'
    BY <1>1, <2>1, <2>2 DEF Following, Ok
  <2> QED
    BY <1>1, <2>3 DEF GrammarInv
<1> QED
  BY <1>2, <1>3

LEMMA GrammarNext ==
  ASSUME Policy # "truncate", ParserInv, GrammarInv, [Next]_vars
  PROVE  GrammarInv'
<1>1. CASE Feed \/ StopFeed
  BY <1>1, FeedSim
<1>2. CASE Finish
  BY <1>2, FinishSim
<1>3. CASE Restart
  BY <1>3, RestartSim
<1>4. CASE KeyInChunk
  BY <1>4, KeyInChunkSim
<1>5. CASE PlainRun
  BY <1>5, PlainRunSim
<1>6. CASE StringEnd
  BY <1>6, StringEndSim
<1>7. CASE ControlInString
  BY <1>7, ControlInStringSim
<1>8. CASE SimpleEscape
  BY <1>8, SimpleEscapeSim
<1>9. CASE UnicodeEscape
  BY <1>9, UnicodeEscapeSim
<1>10. CASE EscapeOpens
  BY <1>10, EscapeOpensSim
<1>11. CASE EscapedByte
  BY <1>11, EscapedByteSim
<1>12. CASE HexDigit
  BY <1>12, HexDigitSim
<1>13. CASE NumberRun
  BY <1>13, NumberRunSim
<1>14. CASE NumberEnd
  BY <1>14, NumberEndSim
<1>15. CASE LiteralByte
  BY <1>15, LiteralByteSim
<1>16. CASE Structure
  BY <1>16, StructureSim
<1>17. CASE UNCHANGED vars
  <2>1. p' = p /\ ref' = ref /\ chunk' = chunk /\ result' = result
    BY <1>17 DEF vars
  <2>2. Following => Following'
    BY <2>1 DEF Following, Ok
  <2>3. Judged => Judged'
    BY <2>1 DEF Judged, Ok, Complete
  <2> QED
    BY <2>1, <2>2, <2>3 DEF GrammarInv
<1> QED
  BY <1>1, <1>2, <1>3, <1>4, <1>5, <1>6, <1>7, <1>8, <1>9, <1>10, <1>11, <1>12, <1>13,
     <1>14, <1>15, <1>16, <1>17 DEF Next

-----------------------------------------------------------------------------
(***************************************************************************)
(* What the simulation shows.                                              *)
(***************************************************************************)

LEMMA InvAcceptsExactly ==
  ASSUME ParserInv, GrammarInv
  PROVE  AcceptsExactlyJson
<1>0. p \in Parser /\ ArrayFits
  BY DEF ParserInv, Sound, CountFits, ArrayFits
<1>1. CASE result = "open"
  <2>1. (p.failed <=> ~Ok(p)) /\ Agrees(p, ref) /\ ref \in Automaton
    BY <1>1 DEF GrammarInv, Following
  <2>2. ASSUME Ok(p), p.lex # "number" PROVE Alive(ref)
    <3>1. Follows(p, ref) /\ p.lex \in Modes
      BY <1>0, <2>1, <2>2 DEF Agrees, Parser
    <3>2. CASE p.lex = "none"
      <4>1. Place(p) \in Places
        BY <1>0, PlaceType
      <4> QED
        BY <3>1, <3>2, <4>1 DEF Follows, InNone, Alive, Places, NumberEnds
    <3>3. CASE p.lex = "string"
      BY <3>1, <3>3 DEF Follows, InText, Alive
    <3>4. CASE p.lex \in DOMAIN Literals
      BY <3>1, <3>4 DEF Follows, InLiteral, Alive
    <3> QED
      BY <2>2, <3>1, <3>2, <3>3, <3>4 DEF Modes, Literals
  <2>3. p.failed /\ p.code = "INVALID_JSON" => ~Alive(ref) \/ ~ref.paired
    BY <2>1 DEF Agrees, Refused, Alive
  <2> QED
    BY <1>0, <1>1, <2>2, <2>3 DEF AcceptsExactlyJson, AcceptsOnlyJson, RejectsOnlyInvalid
<1>2. CASE result # "open"
  <2>1. Judged
    BY <1>2 DEF GrammarInv
  <2>2. Complete(ref) => Alive(ref)
    BY DEF Complete, Alive, NumberEnds
  <2>3. p.failed /\ p.code = "INVALID_JSON" => ~Alive(ref) \/ ~ref.paired
    BY <2>1 DEF Judged, Refused, Alive
  <2> QED
    BY <1>0, <2>1, <2>2, <2>3
       DEF AcceptsExactlyJson, AcceptsOnlyJson, RejectsOnlyInvalid, Judged
<1> QED
  BY <1>1, <1>2

LEMMA InvPairedKey ==
  ASSUME ParserInv, GrammarInv
  PROVE  PairedKeyNamesField
<1> SUFFICES ASSUME AwaitsValue, ref.paired PROVE Top(p).field = KeyField
  BY DEF PairedKeyNamesField
<1>1. Ok(p) /\ Agrees(p, ref) /\ p.lex = "none"
  BY DEF AwaitsValue, GrammarInv, Following
<1>2. InNone(p, ref)
  BY <1>1 DEF Agrees, Follows
<1> QED
  BY <1>2 DEF InNone, AwaitsValue, KeyField, FieldOf

LEMMA InvStopLeaves ==
  ASSUME ParserInv, GrammarInv
  PROVE  StopLeavesRest
  BY DEF StopLeavesRest, GrammarInv

\* The push parser accepts JSON and nothing else: however a document is cut
\* into chunks and whatever the workspace, depth and field map, what it has
\* accepted is the beginning of a JSON text, what finish accepts is a whole
\* one, and INVALID_JSON is reported only for what is not one
\* (lonejson_parser_feed_bytes, lonejson_parser_finish).  Under the truncate
\* policy a refused array item breaks this.
THEOREM LanguageIsJson ==
  ASSUME Policy # "truncate"
  PROVE  Spec => []AcceptsExactlyJson
<1>1. Init => ParserInv /\ GrammarInv
  BY ParserInit, GrammarInit
<1>2. ParserInv /\ GrammarInv /\ [Next]_vars => (ParserInv /\ GrammarInv)'
  BY ParserNext, GrammarNext
<1>3. ParserInv /\ GrammarInv => AcceptsExactlyJson
  BY InvAcceptsExactly
<1> QED
  BY <1>1, <1>2, <1>3, PTL DEF Spec

\* A value of the map fills the field its key spells, wherever the key was
\* cut and however it was escaped, as long as surrogates come in pairs
\* (deliver_key_text, the key branch of feed_bytes).
THEOREM KeysNameFields ==
  ASSUME Policy # "truncate"
  PROVE  Spec => []PairedKeyNamesField
<1>1. Init => ParserInv /\ GrammarInv
  BY ParserInit, GrammarInit
<1>2. ParserInv /\ GrammarInv /\ [Next]_vars => (ParserInv /\ GrammarInv)'
  BY ParserNext, GrammarNext
<1>3. ParserInv /\ GrammarInv => PairedKeyNamesField
  BY InvPairedKey
<1> QED
  BY <1>1, <1>2, <1>3, PTL DEF Spec

\* With stop_at_root a mapping parser consumes no byte after the document
\* (the stop_at_root exit of feed_bytes).
THEOREM RestIsLeft ==
  ASSUME Policy # "truncate"
  PROVE  Spec => []StopLeavesRest
<1>1. Init => ParserInv /\ GrammarInv
  BY ParserInit, GrammarInit
<1>2. ParserInv /\ GrammarInv /\ [Next]_vars => (ParserInv /\ GrammarInv)'
  BY ParserNext, GrammarNext
<1>3. ParserInv /\ GrammarInv => StopLeavesRest
  BY InvStopLeaves
<1> QED
  BY <1>1, <1>2, <1>3, PTL DEF Spec

\* is_valid_json_number takes a token of the number bytes exactly when the
\* grammar may end a number after it, at any length; parse_i64_token takes no
\* other.
THEOREM NumbersAreJson ==
  ASSUME NEW t \in Seq(NumberBytes), t # <<>>, t[1] \in Digits \cup {"-"}
  PROVE  LET ctl == GrammarRun(GrammarStart(FALSE), t).ctl IN
         /\ IsValidJsonNumber(t) <=> ctl \in NumberEnds
         /\ ParsesAsI64(t) => ctl \in NumberEnds
<1>1. Numeric(t)
  BY DEF Numeric
<1> QED
  BY <1>1, NumberAccepted

=============================================================================
